---- MODULE Spec2Model ----
(***************************************************************************)
(* Privacy loss of additive noise mechanisms                               *)
(* (python/dp_accounting/pld/privacy_loss_mechanism.py).                   *)
(*                                                                         *)
(* Number encoding.  The program computes with real numbers, partly in     *)
(* log space.  The model computes with exact rationals <<n, d>> (d > 0,    *)
(* lowest terms); <<1, 0>> and <<-1, 0>> are +infinity and -infinity.      *)
(*                                                                         *)
(*  - A probability (a value of noise_cdf, mu_upper_cdf, a delta) is the   *)
(*    rational itself.                                                     *)
(*  - A log-space quantity v (an epsilon, a privacy loss, a log-cdf) is    *)
(*    stored as the rational exp(v): <<0, 1>> is v = -infinity, <<1, 0>>   *)
(*    is v = +infinity, v1 <= v2 iff exp(v1) <= exp(v2), v1 + v2 is the    *)
(*    product, -v the reciprocal, logaddexp the sum, log(a*exp(b)+c) is    *)
(*    a*exp(b)+c.                                                          *)
(*  - The noise parameter enters as the integer base = exp(a) (discrete    *)
(*    Laplace), exp(unit/b) (Laplace) or exp(unit^2/(2 sigma^2)) (both     *)
(*    Gaussians), so that every density ratio is a power of base.          *)
(*  - A point x is an integer; for the continuous mechanisms it counts     *)
(*    grid units (unit = 1 for the discrete ones).  XInf and -XInf are     *)
(*    x = +infinity and x = -infinity.                                     *)
(***************************************************************************)
EXTENDS Integers, Sequences, FiniteSets, TLC

----------------------------------------------------------------------------
(* Exact rational arithmetic *)

Abs(n) == IF n < 0 THEN -n ELSE n

Sgn(n) == IF n < 0 THEN -1 ELSE IF n > 0 THEN 1 ELSE 0

RECURSIVE GCD(_, _)
GCD(a, b) == IF b = 0 THEN a ELSE GCD(b, a % b)

LCM(a, b) == (a \div GCD(a, b)) * b

Rat(n, d) ==
  IF d = 0 THEN <<Sgn(n), 0>>
  ELSE LET g == GCD(Abs(n), Abs(d))
       IN  <<Sgn(d) * (n \div g), Abs(d) \div g>>

Zero == <<0, 1>>
One == <<1, 1>>
PosInf == <<1, 0>>

IsFinite(a) == a[2] # 0

RNeg(a) == <<-a[1], a[2]>>

\* a + b; never called with infinities of opposite sign
RAdd(a, b) ==
  IF a[2] = 0 THEN a
  ELSE IF b[2] = 0 THEN b
  ELSE LET l == LCM(a[2], b[2])
       IN  Rat(a[1] * (l \div a[2]) + b[1] * (l \div b[2]), l)

RSub(a, b) == RAdd(a, RNeg(b))

\* a * b; never called with 0 * infinity
RMul(a, b) ==
  IF a[2] = 0 \/ b[2] = 0 THEN <<Sgn(a[1]) * Sgn(b[1]), 0>>
  ELSE LET g1 == GCD(Abs(a[1]), b[2])
           g2 == GCD(Abs(b[1]), a[2])
       IN  IF a[1] = 0 \/ b[1] = 0 THEN Zero
           ELSE <<(a[1] \div g1) * (b[1] \div g2),
                  (a[2] \div g2) * (b[2] \div g1)>>

\* 1 / a for a >= 0 (1/0 = +infinity, 1/+infinity = 0)
RInv(a) ==
  IF a[2] = 0 THEN Zero
  ELSE IF a[1] = 0 THEN PosInf
  ELSE <<Sgn(a[1]) * a[2], Abs(a[1])>>

\* n1 / d1 <= n2 / d2 for d1, d2 > 0, by comparing the integer parts and
\* then the reciprocals of the fractional parts (no product is formed)
RECURSIVE FracLe(_, _, _, _)
FracLe(n1, d1, n2, d2) ==
  IF n1 \div d1 # n2 \div d2 THEN n1 \div d1 < n2 \div d2
  ELSE IF n1 % d1 = 0 THEN TRUE
  ELSE IF n2 % d2 = 0 THEN FALSE
  ELSE FracLe(d2, n2 % d2, d1, n1 % d1)

RLe(a, b) ==
  IF a[2] = 0 THEN (a[1] < 0 \/ (b[2] = 0 /\ b[1] > 0))
  ELSE IF b[2] = 0 THEN b[1] > 0
  ELSE FracLe(a[1], a[2], b[1], b[2])

RLt(a, b) == ~RLe(b, a)

RECURSIVE Pow(_, _)
Pow(b, k) == IF k = 0 THEN 1 ELSE b * Pow(b, k - 1)

\* base^k as a rational, k any integer
RPow(b, k) == IF k >= 0 THEN <<Pow(b, k), 1>> ELSE <<1, Pow(b, -k)>>

----------------------------------------------------------------------------
(* Points *)

\* math.inf as a value of x
XInf == 1000

IsInfX(x) == x = XInf \/ x = -XInf

\* np.add(x, k): an infinite x stays infinite
XAdd(x, k) == IF IsInfX(x) THEN x ELSE x + k

\* np.clip(x, lo, hi) on points
XClip(x, lo, hi) == IF x < lo THEN lo ELSE IF x > hi THEN hi ELSE x

----------------------------------------------------------------------------
(* Mechanism instances.  An instance is the record of the attributes the   *)
(* constructors set; attributes a class does not have hold a default.      *)

ADD == "ADD"
REMOVE == "REMOVE"
AdjacencyType == {ADD, REMOVE}

LaplacePrivacyLoss == "LaplacePrivacyLoss"
GaussianPrivacyLoss == "GaussianPrivacyLoss"
DiscreteLaplacePrivacyLoss == "DiscreteLaplacePrivacyLoss"
DiscreteGaussianPrivacyLoss == "DiscreteGaussianPrivacyLoss"

\* exp(-0.5 * x^2 / sigma^2) with exp(1 / (2 sigma^2)) = base
DiscreteGaussianWeight(base, x) == RPow(base, -(x * x))

\* np.logaddexp.accumulate over [-inf] ++ log-weights of -B..B: entry i
\* (1-based) is the sum of the weights of the first i - 1 support points
RECURSIVE LogAddExpAccumulate(_, _, _)
LogAddExpAccumulate(base, B, i) ==
  IF i = 1 THEN Zero
  ELSE RAdd(LogAddExpAccumulate(base, B, i - 1),
            DiscreteGaussianWeight(base, i - 2 - B))

\* self._log_cdf_array after subtracting its last entry (a division in
\* linear scale); 2B + 2 entries, the first is log 0, the last is log 1
DiscreteGaussianLogCdfArray(base, B) ==
  LET total == LogAddExpAccumulate(base, B, 2 * B + 2)
  IN  [i \in 1..(2 * B + 2) |->
         RMul(LogAddExpAccumulate(base, B, i), RInv(total))]

NoInstance == [cls |-> "None", sensitivity |-> 0, discrete_noise |-> FALSE,
               sampling_prob |-> One, adjacency_type |-> REMOVE,
               base |-> 2, truncation_bound |-> 0, offset |-> 0,
               log_cdf_array |-> <<>>, cdf_array |-> <<>>,
               pessimistic_estimate |-> TRUE]

\* AdditiveNoisePrivacyLoss.__init__: the two validations
BaseInitFails_NoUpperBound(sensitivity, sampling_prob) ==
  \/ sensitivity <= 0
  \/ RLe(sampling_prob, Zero)

BaseInitFails(sensitivity, sampling_prob) ==
  \/ sensitivity <= 0
  \/ RLe(sampling_prob, Zero)
  \/ RLt(One, sampling_prob)

\* LaplacePrivacyLoss(parameter, sensitivity, sampling_prob, adjacency_type)
NewLaplace(base, sensitivity, sampling_prob, adjacency_type) ==
  [NoInstance EXCEPT !.cls = LaplacePrivacyLoss, !.base = base,
                     !.sensitivity = sensitivity, !.discrete_noise = FALSE,
                     !.sampling_prob = sampling_prob,
                     !.adjacency_type = adjacency_type]

\* DiscreteLaplacePrivacyLoss(parameter, sensitivity, sampling_prob,
\* adjacency_type)
NewDiscreteLaplace(base, sensitivity, sampling_prob, adjacency_type) ==
  [NoInstance EXCEPT !.cls = DiscreteLaplacePrivacyLoss, !.base = base,
                     !.sensitivity = sensitivity, !.discrete_noise = TRUE,
                     !.sampling_prob = sampling_prob,
                     !.adjacency_type = adjacency_type]

\* DiscreteGaussianPrivacyLoss.__init__: the truncation bound check
DiscreteGaussianInitFails_OffByOne(sensitivity, truncation_bound) ==
  2 * truncation_bound + 1 < sensitivity

DiscreteGaussianInitFails(sensitivity, truncation_bound) ==
  2 * truncation_bound < sensitivity

\* DiscreteGaussianPrivacyLoss(sigma, sensitivity, truncation_bound,
\* sampling_prob, adjacency_type) with an explicit truncation_bound
NewDiscreteGaussian(base, sensitivity, truncation_bound, sampling_prob, adjacency_type) ==
  [NoInstance EXCEPT !.cls = DiscreteGaussianPrivacyLoss, !.base = base,
                     !.sensitivity = sensitivity, !.discrete_noise = TRUE,
                     !.truncation_bound = truncation_bound,
                     !.offset = -1 * truncation_bound - 1,
                     !.log_cdf_array =
                        DiscreteGaussianLogCdfArray(base, truncation_bound),
                     !.cdf_array =
                        DiscreteGaussianLogCdfArray(base, truncation_bound),
                     !.sampling_prob = sampling_prob,
                     !.adjacency_type = adjacency_type]

\* GaussianPrivacyLoss(standard_deviation, sensitivity, pessimistic_estimate,
\* log_mass_truncation_bound, sampling_prob, adjacency_type)
NewGaussian(base, sensitivity, pessimistic_estimate, sampling_prob, adjacency_type) ==
  [NoInstance EXCEPT !.cls = GaussianPrivacyLoss, !.base = base,
                     !.sensitivity = sensitivity, !.discrete_noise = FALSE,
                     !.pessimistic_estimate = pessimistic_estimate,
                     !.sampling_prob = sampling_prob,
                     !.adjacency_type = adjacency_type]

----------------------------------------------------------------------------
(* Noise distributions *)

\* stats.laplace(scale=parameter).cdf(x): 0.5 * exp(x / b) for x <= 0 and
\* 1 - 0.5 * exp(-x / b) for x > 0, with exp(x / b) = base^x
LaplaceCdf(base, x) ==
  IF x = XInf THEN One
  ELSE IF x = -XInf THEN Zero
  ELSE IF x > 0 THEN RSub(One, RMul(<<1, 2>>, RPow(base, -x)))
  ELSE RMul(<<1, 2>>, RPow(base, x))

\* stats.dlaplace(parameter).cdf(x) at k = floor(x):
\* 1 - exp(-a k) / (exp(a) + 1) for k >= 0, exp(a (k + 1)) / (exp(a) + 1)
\* for k < 0, with exp(a) = base
DiscreteLaplaceCdf(base, x) ==
  IF x = XInf THEN One
  ELSE IF x = -XInf THEN Zero
  ELSE IF x >= 0 THEN RSub(One, RMul(RPow(base, -x), <<1, base + 1>>))
  ELSE RMul(RPow(base, x + 1), <<1, base + 1>>)

\* denominator of the tabulated standard normal cdf
GaussianCdfScale == 262144

\* stats.norm(scale=standard_deviation).cdf at the grid points
\* x = j * sigma * sqrt(2 ln 2) (base = 2), rounded to a multiple of
\* 1 / GaussianCdfScale: Phi(1.17741 j) * 2^18
GaussianCdfTable ==
  [j \in -3..3 |->
     CASE j = -3 -> 54 [] j = -2 -> 2429 [] j = -1 -> 31330
       [] j = 0 -> 131072
       [] j = 1 -> 230814 [] j = 2 -> 259715 [] j = 3 -> 262090]

GaussianCdf(x) ==
  IF x < -3 THEN Zero
  ELSE IF x > 3 THEN One
  ELSE Rat(GaussianCdfTable[x], GaussianCdfScale)

\* DiscreteGaussianPrivacyLoss.noise_cdf: clip, floor, index the array
DiscreteGaussianCdf(self, x) ==
  LET clipped_x == XClip(x, -1 * self.truncation_bound - 1,
                         self.truncation_bound)
      indices == clipped_x - self.offset
  IN  self.cdf_array[indices + 1]

\* DiscreteGaussianPrivacyLoss.noise_log_cdf
DiscreteGaussianLogCdf(self, x) ==
  LET clipped_x == XClip(x, -1 * self.truncation_bound - 1,
                         self.truncation_bound)
      indices == clipped_x - self.offset
  IN  self.log_cdf_array[indices + 1]

noise_cdf(self, x) ==
  CASE self.cls = LaplacePrivacyLoss -> LaplaceCdf(self.base, x)
    [] self.cls = GaussianPrivacyLoss -> GaussianCdf(x)
    [] self.cls = DiscreteLaplacePrivacyLoss ->
         DiscreteLaplaceCdf(self.base, x)
    [] self.cls = DiscreteGaussianPrivacyLoss -> DiscreteGaussianCdf(self, x)

\* the log of the cdf, stored as its exponential
noise_log_cdf(self, x) ==
  CASE self.cls = LaplacePrivacyLoss -> LaplaceCdf(self.base, x)
    [] self.cls = GaussianPrivacyLoss -> GaussianCdf(x)
    [] self.cls = DiscreteLaplacePrivacyLoss ->
         DiscreteLaplaceCdf(self.base, x)
    [] self.cls = DiscreteGaussianPrivacyLoss ->
         DiscreteGaussianLogCdf(self, x)

\* mu_upper_cdf whose sampling_prob = 1 path forgets the shift
mu_upper_cdf_NoShift(self, x) ==
  IF self.adjacency_type = ADD THEN noise_cdf(self, x)
  ELSE IF self.sampling_prob = One
       THEN noise_cdf(self, x)
       ELSE RAdd(RMul(RSub(One, self.sampling_prob), noise_cdf(self, x)),
                 RMul(self.sampling_prob,
                      noise_cdf(self, XAdd(x, self.sensitivity))))

\* AdditiveNoisePrivacyLoss.mu_upper_cdf
mu_upper_cdf(self, x) ==
  IF self.adjacency_type = ADD THEN noise_cdf(self, x)
  ELSE IF self.sampling_prob = One
       THEN noise_cdf(self, XAdd(x, self.sensitivity))
       ELSE RAdd(RMul(RSub(One, self.sampling_prob), noise_cdf(self, x)),
                 RMul(self.sampling_prob,
                      noise_cdf(self, XAdd(x, self.sensitivity))))

\* AdditiveNoisePrivacyLoss.mu_lower_log_cdf (a log, stored as its
\* exponential: logaddexp is the sum, + is the product)
mu_lower_log_cdf(self, x) ==
  IF self.adjacency_type = ADD
  THEN IF self.sampling_prob = One
       THEN noise_log_cdf(self, XAdd(x, -self.sensitivity))
       ELSE RAdd(RMul(RSub(One, self.sampling_prob), noise_log_cdf(self, x)),
                 RMul(self.sampling_prob,
                      noise_log_cdf(self, XAdd(x, -self.sensitivity))))
  ELSE noise_log_cdf(self, x)

----------------------------------------------------------------------------
(* Privacy loss and its inverse.  A result is [err, val]: err is TRUE when *)
(* the method raises ValueError, and val is then a placeholder.            *)

Return(v) == [err |-> FALSE, val |-> v]
RaiseLoss == [err |-> TRUE, val |-> Zero]
RaiseX == [err |-> TRUE, val |-> 0]

\* common.log_a_times_exp_b_plus_c(a, b, c) = log(a * exp(b) + c); b and
\* the result are logs, stored as their exponentials
log_a_times_exp_b_plus_c(a, b, c) == RAdd(RMul(a, b), c)

\* LaplacePrivacyLoss.privacy_loss_without_subsampling
LaplaceLoss_SwappedAdjacency(self, x) ==
  IF self.adjacency_type = REMOVE
  THEN Return(RPow(self.base, Abs(x - self.sensitivity) - Abs(x)))
  ELSE Return(RPow(self.base, Abs(x) - Abs(x + self.sensitivity)))

LaplaceLoss(self, x) ==
  IF self.adjacency_type = ADD
  THEN Return(RPow(self.base, Abs(x - self.sensitivity) - Abs(x)))
  ELSE Return(RPow(self.base, Abs(x) - Abs(x + self.sensitivity)))

\* GaussianPrivacyLoss.privacy_loss_without_subsampling:
\* s * (0.5 s - x) / sigma^2 = (s * (s - 2 x)) * ln(base)
GaussianLoss_IgnoresAdjacency(self, x) ==
  Return(RPow(self.base, self.sensitivity * (self.sensitivity - 2 * x)))

GaussianLoss(self, x) ==
  IF self.adjacency_type = ADD
  THEN Return(RPow(self.base,
                   self.sensitivity * (self.sensitivity - 2 * x)))
  ELSE Return(RPow(self.base,
                   self.sensitivity * (-self.sensitivity - 2 * x)))

\* DiscreteLaplacePrivacyLoss.privacy_loss_without_subsampling
DiscreteLaplaceLoss_SwappedAdjacency(self, x, x_is_int) ==
  IF ~x_is_int THEN RaiseLoss
  ELSE IF self.adjacency_type = REMOVE
  THEN Return(RPow(self.base, Abs(x - self.sensitivity) - Abs(x)))
  ELSE Return(RPow(self.base, Abs(x) - Abs(x + self.sensitivity)))

DiscreteLaplaceLoss(self, x, x_is_int) ==
  IF ~x_is_int THEN RaiseLoss
  ELSE IF self.adjacency_type = ADD
  THEN Return(RPow(self.base, Abs(x - self.sensitivity) - Abs(x)))
  ELSE Return(RPow(self.base, Abs(x) - Abs(x + self.sensitivity)))

\* DiscreteGaussianLossForAdd with the two infinite returns exchanged
DiscreteGaussianLossForAdd_NoUpperError(self, x, x_is_int) ==
  IF \/ ~x_is_int
     \/ x < -1 * self.truncation_bound
  THEN RaiseLoss
  ELSE IF x > self.truncation_bound THEN Return(Zero)
  ELSE IF x < self.sensitivity - self.truncation_bound THEN Return(PosInf)
  ELSE Return(RPow(self.base,
                   self.sensitivity * (self.sensitivity - 2 * x)))

DiscreteGaussianLossForAdd_SwappedInfinities(self, x, x_is_int) ==
  IF \/ ~x_is_int
     \/ x < -1 * self.truncation_bound
     \/ x > self.truncation_bound + self.sensitivity
  THEN RaiseLoss
  ELSE IF x > self.truncation_bound THEN Return(PosInf)
  ELSE IF x < self.sensitivity - self.truncation_bound THEN Return(Zero)
  ELSE Return(RPow(self.base,
                   self.sensitivity * (self.sensitivity - 2 * x)))

\* privacy_loss_without_subsampling_for_add of DiscreteGaussianPrivacyLoss
DiscreteGaussianLossForAdd(self, x, x_is_int) ==
  IF \/ ~x_is_int
     \/ x < -1 * self.truncation_bound
     \/ x > self.truncation_bound + self.sensitivity
  THEN RaiseLoss
  ELSE IF x > self.truncation_bound THEN Return(Zero)
  ELSE IF x < self.sensitivity - self.truncation_bound THEN Return(PosInf)
  ELSE Return(RPow(self.base,
                   self.sensitivity * (self.sensitivity - 2 * x)))

\* DiscreteGaussianPrivacyLoss.privacy_loss_without_subsampling
DiscreteGaussianLoss(self, x, x_is_int) ==
  IF self.adjacency_type = ADD
  THEN DiscreteGaussianLossForAdd(self, x, x_is_int)
  ELSE DiscreteGaussianLossForAdd(self, x + self.sensitivity, x_is_int)

privacy_loss_without_subsampling(self, x, x_is_int) ==
  CASE self.cls = LaplacePrivacyLoss -> LaplaceLoss(self, x)
    [] self.cls = GaussianPrivacyLoss -> GaussianLoss(self, x)
    [] self.cls = DiscreteLaplacePrivacyLoss ->
         DiscreteLaplaceLoss(self, x, x_is_int)
    [] self.cls = DiscreteGaussianPrivacyLoss ->
         DiscreteGaussianLoss(self, x, x_is_int)

\* AdditiveNoisePrivacyLoss.privacy_loss
privacy_loss_FoldsFailure(self, x, x_is_int) ==
  LET without == privacy_loss_without_subsampling(self, x, x_is_int)
  IN  IF self.sampling_prob = One THEN without
      ELSE IF self.adjacency_type = ADD
      THEN Return(RInv(log_a_times_exp_b_plus_c(
                         self.sampling_prob, PosInf,
                         RSub(One, self.sampling_prob))))
      ELSE Return(log_a_times_exp_b_plus_c(
                    self.sampling_prob, without.val,
                    RSub(One, self.sampling_prob)))

privacy_loss(self, x, x_is_int) ==
  LET without == privacy_loss_without_subsampling(self, x, x_is_int)
  IN  IF without.err THEN RaiseLoss
      ELSE IF self.sampling_prob = One THEN without
      ELSE IF self.adjacency_type = ADD
      THEN Return(RInv(log_a_times_exp_b_plus_c(
                         self.sampling_prob, RInv(without.val),
                         RSub(One, self.sampling_prob))))
      ELSE Return(log_a_times_exp_b_plus_c(
                    self.sampling_prob, without.val,
                    RSub(One, self.sampling_prob)))

\* largest exponent of base the model takes a logarithm of
MaxExponent == 9

Exponents == -MaxExponent..MaxExponent

IsPower(base, E) == \E k \in Exponents : RPow(base, k) = E

\* log(E) / log(base) when it is an integer
ExactLog(base, E) == CHOOSE k \in Exponents : RPow(base, k) = E

Divides(d, n) == n % d = 0

\* n / d when d divides n
ExactQuotient(n, d) == CHOOSE j \in -Abs(n)..Abs(n) : d * j = n

\* math.floor(np.clip((c - log(E) / log(base)) / d, lo, hi)) for d > 0 and
\* integers lo <= hi: the largest j in lo..hi with
\* log(E) / log(base) <= c - d * j, and lo when there is none
FloorClip(base, E, c, d, lo, hi) ==
  LET S == {j \in lo..hi : RLe(E, RPow(base, c - d * j))}
  IN  IF S = {} THEN lo ELSE CHOOSE j \in S : \A j2 \in S : j2 <= j

\* LaplacePrivacyLoss.inverse_privacy_loss_without_subsampling;
\* loss_threshold = privacy_loss * parameter is compared with sensitivity
LaplaceInverse(self, L) ==
  IF RLt(RPow(self.base, self.sensitivity), L) THEN -XInf
  ELSE IF RLe(L, RPow(self.base, -self.sensitivity)) THEN XInf
  ELSE IF self.adjacency_type = ADD
  THEN ExactQuotient(self.sensitivity - ExactLog(self.base, L), 2)
  ELSE ExactQuotient(-self.sensitivity - ExactLog(self.base, L), 2)

\* GaussianPrivacyLoss.inverse_privacy_loss_without_subsampling:
\* 0.5 s - L sigma^2 / s = (s^2 - log(E) / log(base)) / (2 s)
GaussianInverse(self, L) ==
  IF L = PosInf THEN -XInf
  ELSE IF L = Zero THEN XInf
  ELSE IF self.adjacency_type = ADD
  THEN ExactQuotient(self.sensitivity * self.sensitivity
                       - ExactLog(self.base, L), 2 * self.sensitivity)
  ELSE ExactQuotient(-(self.sensitivity * self.sensitivity)
                       - ExactLog(self.base, L), 2 * self.sensitivity)

\* DiscreteLaplacePrivacyLoss.inverse_privacy_loss_without_subsampling;
\* loss_threshold = privacy_loss / parameter is compared with sensitivity
DiscreteLaplaceInverse(self, L) ==
  IF RLt(RPow(self.base, self.sensitivity), L) THEN -XInf
  ELSE IF RLe(L, RPow(self.base, -self.sensitivity)) THEN XInf
  ELSE IF self.adjacency_type = ADD
  THEN FloorClip(self.base, L, self.sensitivity, 2,
                 -self.sensitivity - 1, self.sensitivity + 1)
  ELSE FloorClip(self.base, L, -self.sensitivity, 2,
                 -2 * self.sensitivity - 1, self.sensitivity + 1)

\* DiscreteGaussianInverseForAdd clipping at sensitivity - truncation_bound
DiscreteGaussianInverseForAdd_ClipAtSupport(self, L) ==
  IF L = Zero THEN self.truncation_bound
  ELSE FloorClip(self.base, L, self.sensitivity * self.sensitivity,
                 2 * self.sensitivity,
                 self.sensitivity - self.truncation_bound,
                 self.truncation_bound)

\* inverse_privacy_loss_without_subsampling_for_add of
\* DiscreteGaussianPrivacyLoss
DiscreteGaussianInverseForAdd(self, L) ==
  IF L = Zero THEN self.truncation_bound
  ELSE FloorClip(self.base, L, self.sensitivity * self.sensitivity,
                 2 * self.sensitivity,
                 self.sensitivity - self.truncation_bound - 1,
                 self.truncation_bound)

\* DiscreteGaussianPrivacyLoss.inverse_privacy_loss_without_subsampling
DiscreteGaussianInverse(self, L) ==
  IF self.adjacency_type = ADD
  THEN DiscreteGaussianInverseForAdd(self, L)
  ELSE DiscreteGaussianInverseForAdd(self, L) - self.sensitivity

inverse_privacy_loss_without_subsampling(self, L) ==
  CASE self.cls = LaplacePrivacyLoss -> LaplaceInverse(self, L)
    [] self.cls = GaussianPrivacyLoss -> GaussianInverse(self, L)
    [] self.cls = DiscreteLaplacePrivacyLoss ->
         DiscreteLaplaceInverse(self, L)
    [] self.cls = DiscreteGaussianPrivacyLoss ->
         DiscreteGaussianInverse(self, L)

\* math.isclose(a, b) for logs a (with its offset of a few ulps, ulp) and b:
\* the values the model distinguishes are far more than the relative
\* tolerance 1e-09 apart, so only equal values and their ulp neighbours are
\* close
IsClose(a, ulp, b) == a = b

\* a > b for a log a displaced by ulp (-1, 0 or 1: below, at, above)
GreaterThan(a, ulp, b) == RLt(b, a) \/ (a = b /\ ulp > 0)

\* a <= b for a log a displaced by ulp
AtMost(a, ulp, b) == ~GreaterThan(a, ulp, b)

\* a >= b for a log a displaced by ulp
AtLeast(a, ulp, b) == RLt(b, a) \/ (a = b /\ ulp >= 0)

\* the floating-point numbers of [1/2, 1] are the multiples of
\* 1 / FloatGrid (2^-53 for a double, scaled to the sampling probabilities
\* of the model)
FloatGrid == 8

\* n / d rounded to the nearest integer, to the even one of two equally near
RoundHalfEven(n, d) ==
  IF 2 * (n % d) < d THEN n \div d
  ELSE IF 2 * (n % d) > d THEN (n \div d) + 1
  ELSE (n \div d) + ((n \div d) % 2)

\* the floating-point number nearest to v
RoundToGrid(v) == Rat(RoundHalfEven(v[1] * FloatGrid, v[2]), FloatGrid)

\* 1 - self.sampling_prob as the floating-point subtraction computes it, for
\* sampling_prob in (0, 1/2]: the nearest multiple of 1 / FloatGrid, the even
\* one of two equally near.  math.log1p(-self.sampling_prob) does not form
\* this difference and keeps the exact value
FloatOneMinus(q) == RoundToGrid(RSub(One, q))

\* inverse_privacy_loss without the two raise statements
inverse_privacy_loss_NoRaise(self, L, ulp) ==
  LET one_minus_q == FloatOneMinus(self.sampling_prob)
  IN  IF self.sampling_prob = One
      THEN Return(inverse_privacy_loss_without_subsampling(self, L))
      ELSE IF self.adjacency_type = ADD
      THEN IF AtLeast(L, ulp, RInv(one_minus_q))
           THEN Return(inverse_privacy_loss_without_subsampling(self, PosInf))
           ELSE Return(inverse_privacy_loss_without_subsampling(self,
                  RInv(log_a_times_exp_b_plus_c(
                         RInv(self.sampling_prob), RInv(L),
                         RSub(One, RInv(self.sampling_prob))))))
      ELSE IF AtMost(L, ulp, one_minus_q)
           THEN Return(inverse_privacy_loss_without_subsampling(self, Zero))
           ELSE Return(inverse_privacy_loss_without_subsampling(self,
                  log_a_times_exp_b_plus_c(
                    RInv(self.sampling_prob), L,
                    RSub(One, RInv(self.sampling_prob)))))

\* AdditiveNoisePrivacyLoss.inverse_privacy_loss
inverse_privacy_loss(self, L, ulp) ==
  LET one_minus_q == FloatOneMinus(self.sampling_prob)
  IN  IF self.sampling_prob = One
      THEN Return(inverse_privacy_loss_without_subsampling(self, L))
      ELSE IF self.adjacency_type = ADD
      THEN IF IsClose(L, ulp, RInv(one_minus_q))
           THEN Return(inverse_privacy_loss_without_subsampling(self, PosInf))
           ELSE IF GreaterThan(L, ulp, RInv(one_minus_q))
           THEN RaiseX
           ELSE Return(inverse_privacy_loss_without_subsampling(self,
                  RInv(log_a_times_exp_b_plus_c(
                         RInv(self.sampling_prob), RInv(L),
                         RSub(One, RInv(self.sampling_prob))))))
      ELSE IF IsClose(L, ulp, one_minus_q)
           THEN Return(inverse_privacy_loss_without_subsampling(self, Zero))
           ELSE IF AtMost(L, ulp, one_minus_q)
           THEN RaiseX
           ELSE Return(inverse_privacy_loss_without_subsampling(self,
                  log_a_times_exp_b_plus_c(
                    RInv(self.sampling_prob), L,
                    RSub(One, RInv(self.sampling_prob)))))

----------------------------------------------------------------------------
(* Hockey stick divergence *)

\* np.clip(delta, 0, 1)
Clip01(d) == IF RLt(d, Zero) THEN Zero ELSE IF RLt(One, d) THEN One ELSE d

\* InverseIndex with the ADD comparison made inclusive (<= for <)
InverseIndex_AddInclusive(self, eps) ==
  IF self.sampling_prob = One THEN TRUE
  ELSE IF self.adjacency_type = ADD
  THEN RLe(eps, RInv(RSub(One, self.sampling_prob)))
  ELSE RLt(RSub(One, self.sampling_prob), eps)

\* inverse_indices of get_delta_for_epsilon for one epsilon
InverseIndex(self, eps) ==
  IF self.sampling_prob = One THEN TRUE
  ELSE IF self.adjacency_type = ADD
  THEN RLt(eps, RInv(RSub(One, self.sampling_prob)))
  ELSE RLt(RSub(One, self.sampling_prob), eps)

\* DeltaEntry without the assignment deltas[other_indices] = -expm1(...)
DeltaEntry_NoClosedForm(self, eps) ==
  IF InverseIndex(self, eps)
  THEN LET x_cutoff == inverse_privacy_loss(self, eps, 0).val
       IN  RSub(mu_upper_cdf(self, x_cutoff),
                RMul(eps, mu_lower_log_cdf(self, x_cutoff)))
  ELSE Zero

\* DeltaEntry with np.expm1(...) for -np.expm1(...)
DeltaEntry_ExpM1Sign(self, eps) ==
  IF InverseIndex(self, eps)
  THEN LET x_cutoff == inverse_privacy_loss(self, eps, 0).val
       IN  RSub(mu_upper_cdf(self, x_cutoff),
                RMul(eps, mu_lower_log_cdf(self, x_cutoff)))
  ELSE IF self.sampling_prob # One /\ self.adjacency_type # ADD
  THEN RSub(eps, One)
  ELSE Zero

\* the entry of deltas for one epsilon, before clipping
DeltaEntry(self, eps) ==
  IF InverseIndex(self, eps)
  THEN LET x_cutoff == inverse_privacy_loss(self, eps, 0).val
       IN  RSub(mu_upper_cdf(self, x_cutoff),
                RMul(eps, mu_lower_log_cdf(self, x_cutoff)))
  ELSE IF self.sampling_prob # One /\ self.adjacency_type # ADD
  THEN RSub(One, eps)
  ELSE Zero

\* AdditiveNoisePrivacyLoss.get_delta_for_epsilon on a list of epsilons:
\* [err, deltas, inverse_calls], inverse_calls being the epsilons
\* inverse_privacy_loss was evaluated for
get_delta_for_epsilon(self, epsilons) ==
  LET inverse_calls == SelectSeq(epsilons, LAMBDA e : InverseIndex(self, e))
      raised == \E i \in 1..Len(inverse_calls) :
                   inverse_privacy_loss(self, inverse_calls[i], 0).err
  IN  IF raised
      THEN [err |-> TRUE, deltas |-> <<>>, inverse_calls |-> inverse_calls]
      ELSE [err |-> FALSE,
            deltas |-> [i \in 1..Len(epsilons) |->
                          Clip01(DeltaEntry(self, epsilons[i]))],
            inverse_calls |-> inverse_calls]

----------------------------------------------------------------------------
(* Inputs *)

MaxSensitivity == 2
MaxTruncationBound == 2
MaxX == 4
MaxEpsilons == 2

\* exp(a), exp(unit / b): the noise parameters tried
LaplaceBases == {2, 3}
\* exp(unit^2 / (2 sigma^2)); GaussianCdfTable is the table for base 2
GaussianBases == {2}

\* sampling_prob, with two values outside (0, 1]; 1 - sampling_prob is a
\* floating-point number for each of them
SamplingProbs == {<<0, 1>>, <<1, 4>>, <<1, 2>>, One, <<3, 2>>}

\* a sampling_prob below the spacing of the floating-point numbers next to
\* 1 (1e-17 for a double): 1 - sampling_prob is rounded
RoundedSamplingProbs == {<<1, 16>>}

Sensitivities == (-1)..MaxSensitivity

\* the points x at which the model evaluates the privacy loss: for the
\* Gaussian mechanism those whose loss is base^k with k in Exponents
InputPoints(self) ==
  {x \in -MaxX..MaxX :
     self.cls = GaussianPrivacyLoss =>
       IF self.adjacency_type = ADD
       THEN Abs(self.sensitivity * (self.sensitivity - 2 * x)) <= MaxExponent
       ELSE Abs(self.sensitivity * (-self.sensitivity - 2 * x))
              <= MaxExponent}

\* the loss the inverse of the noise is asked for by inverse_privacy_loss
UnsampledLoss(self, L) ==
  LET q == self.sampling_prob
  IN  IF q = One THEN L
      ELSE IF self.adjacency_type = ADD
      THEN IF RLe(RInv(RSub(One, q)), L) THEN PosInf
           ELSE RInv(RAdd(RMul(RInv(q), RInv(L)), RSub(One, RInv(q))))
      ELSE IF RLe(L, RSub(One, q)) THEN Zero
           ELSE RAdd(RMul(RInv(q), L), RSub(One, RInv(q)))

\* the inverse of the noise at loss L is a grid point or infinite (always
\* so for the discrete mechanisms, which take a floor)
OnGridWithoutSubsampling(self, L) ==
  CASE self.cls = LaplacePrivacyLoss ->
         \/ RLt(RPow(self.base, self.sensitivity), L)
         \/ RLe(L, RPow(self.base, -self.sensitivity))
         \/ /\ IsPower(self.base, L)
            /\ Divides(2, self.sensitivity - ExactLog(self.base, L))
    [] self.cls = GaussianPrivacyLoss ->
         \/ L = PosInf
         \/ L = Zero
         \/ /\ IsPower(self.base, L)
            /\ Divides(2 * self.sensitivity,
                       self.sensitivity * self.sensitivity
                         - ExactLog(self.base, L))
    [] OTHER -> TRUE

OnGrid(self, L) == OnGridWithoutSubsampling(self, UnsampledLoss(self, L))

\* the two thresholds of the sub-sampling algebra: -log(1 - q), log(1 - q)
Thresholds(self) ==
  IF self.sampling_prob = One THEN {}
  ELSE {RInv(RSub(One, self.sampling_prob)), RSub(One, self.sampling_prob)}

\* losses that are not powers of the base
OtherLosses == {<<1, 64>>, <<1, 3>>, <<2, 3>>, One, <<3, 2>>, <<3, 1>>,
                <<64, 1>>}

\* the losses the mechanism takes at the input points
AchievedLosses(self) ==
  {privacy_loss(self, x, TRUE).val :
     x \in {y \in InputPoints(self) : ~privacy_loss(self, y, TRUE).err}}

AchievedLossesWithoutSubsampling(self) ==
  {privacy_loss_without_subsampling(self, x, TRUE).val :
     x \in {y \in InputPoints(self) :
              ~privacy_loss_without_subsampling(self, y, TRUE).err}}

\* epsilons that are not powers of the base, on either side of 0 and of the
\* thresholds
OtherEpsilons == {<<1, 3>>, <<2, 3>>, One, <<3, 2>>, <<3, 1>>}

\* finite epsilons for get_delta_for_epsilon
Epsilons(self) ==
  {e \in AchievedLosses(self) \cup Thresholds(self) \cup OtherEpsilons :
     /\ e # Zero
     /\ e # PosInf
     /\ OnGrid(self, e)}

\* privacy losses for inverse_privacy_loss, with -infinity and +infinity
PrivacyLosses(self) ==
  {L \in AchievedLosses(self) \cup Thresholds(self) \cup OtherLosses
           \cup {Zero, PosInf} : OnGrid(self, L)}

\* privacy losses for inverse_privacy_loss_without_subsampling
PrivacyLossesWithoutSubsampling(self) ==
  {L \in AchievedLossesWithoutSubsampling(self) \cup OtherLosses
           \cup {Zero, PosInf} : OnGridWithoutSubsampling(self, L)}

\* lists of 1..MaxEpsilons epsilons.  Every numpy operation of
\* get_delta_for_epsilon is element-wise, so the lists are enumerated up to
\* the order of their entries: non-decreasing ones
EpsilonLists(self) ==
  {l \in UNION {[1..n -> Epsilons(self)] : n \in 1..MaxEpsilons} :
     \A i \in 1..(Len(l) - 1) : RLe(l[i], l[i + 1])}

----------------------------------------------------------------------------
(* Tails and connect-the-dots bounds *)

TailPrivacyLossDistribution(lower_x_truncation, upper_x_truncation, pmf) ==
  [lower_x_truncation |-> lower_x_truncation,
   upper_x_truncation |-> upper_x_truncation,
   tail_probability_mass_function |-> pmf]

\* a dict display {k1: v1, k2: v2}, as the sequence of its items: a
\* repeated key keeps the last value
Dict(k1, v1, k2, v2) ==
  IF k1 = k2 THEN << <<k2, v2>> >> ELSE << <<k1, v1>>, <<k2, v2>> >>

LossAtPoint(self, x) == privacy_loss(self, x, TRUE).val

LaplaceTail(self) ==
  LET lower == IF self.adjacency_type = ADD THEN 0 ELSE -self.sensitivity
      upper == IF self.adjacency_type = ADD THEN self.sensitivity ELSE 0
  IN  TailPrivacyLossDistribution(
         lower, upper,
         Dict(LossAtPoint(self, lower), mu_upper_cdf(self, lower),
              LossAtPoint(self, upper),
              RSub(One, mu_upper_cdf(self, upper))))

\* -ppf(0.5 * exp(log_mass_truncation_bound)) in grid units: the model takes
\* the log_mass_truncation_bound whose quantile is one grid unit below 0
GaussianTruncation == 1

GaussianTail_UpperMassKept(self) ==
  LET lower == IF self.adjacency_type = ADD THEN -GaussianTruncation
               ELSE -GaussianTruncation - self.sensitivity
      upper == IF self.adjacency_type = ADD
               THEN GaussianTruncation + self.sensitivity
               ELSE GaussianTruncation
  IN  TailPrivacyLossDistribution(
        lower, upper,
        Dict(IF self.pessimistic_estimate THEN PosInf
             ELSE LossAtPoint(self, lower),
             mu_upper_cdf(self, lower),
             LossAtPoint(self, upper),
             RSub(One, mu_upper_cdf(self, upper))))

GaussianTail(self) ==
  LET lower == IF self.adjacency_type = ADD THEN -GaussianTruncation
               ELSE -GaussianTruncation - self.sensitivity
      upper == IF self.adjacency_type = ADD
               THEN GaussianTruncation + self.sensitivity
               ELSE GaussianTruncation
  IN  IF self.pessimistic_estimate
      THEN TailPrivacyLossDistribution(
             lower, upper,
             Dict(PosInf, mu_upper_cdf(self, lower),
                  LossAtPoint(self, upper),
                  RSub(One, mu_upper_cdf(self, upper))))
      ELSE TailPrivacyLossDistribution(
             lower, upper,
             << <<LossAtPoint(self, lower), mu_upper_cdf(self, lower)>> >>)

DiscreteLaplaceTail_LowerInclusive(self) ==
  LET lower == IF self.adjacency_type = ADD THEN 1 ELSE 1 - self.sensitivity
      upper == IF self.adjacency_type = ADD THEN self.sensitivity - 1 ELSE -1
  IN  TailPrivacyLossDistribution(
         lower, upper,
         Dict(LossAtPoint(self, lower), mu_upper_cdf(self, lower),
              LossAtPoint(self, upper + 1),
              RSub(One, mu_upper_cdf(self, upper))))

DiscreteLaplaceTail(self) ==
  LET lower == IF self.adjacency_type = ADD THEN 1 ELSE 1 - self.sensitivity
      upper == IF self.adjacency_type = ADD THEN self.sensitivity - 1 ELSE -1
  IN  TailPrivacyLossDistribution(
         lower, upper,
         Dict(LossAtPoint(self, lower - 1), mu_upper_cdf(self, lower - 1),
              LossAtPoint(self, upper + 1),
              RSub(One, mu_upper_cdf(self, upper))))

DiscreteGaussianTail_IgnoresSampling(self) ==
  LET lower == IF self.adjacency_type = ADD
               THEN self.sensitivity - self.truncation_bound
               ELSE -self.truncation_bound
      upper == IF self.adjacency_type = REMOVE
               THEN self.truncation_bound - self.sensitivity
               ELSE self.truncation_bound
  IN  TailPrivacyLossDistribution(
        lower, upper, << <<PosInf, mu_upper_cdf(self, lower - 1)>> >>)

DiscreteGaussianTail(self) ==
  LET lower == IF self.adjacency_type = ADD /\ self.sampling_prob = One
               THEN self.sensitivity - self.truncation_bound
               ELSE -self.truncation_bound
      upper == IF self.adjacency_type = REMOVE /\ self.sampling_prob = One
               THEN self.truncation_bound - self.sensitivity
               ELSE self.truncation_bound
  IN  TailPrivacyLossDistribution(
        lower, upper, << <<PosInf, mu_upper_cdf(self, lower - 1)>> >>)

privacy_loss_tail(self) ==
  CASE self.cls = LaplacePrivacyLoss -> LaplaceTail(self)
    [] self.cls = GaussianPrivacyLoss -> GaussianTail(self)
    [] self.cls = DiscreteLaplacePrivacyLoss -> DiscreteLaplaceTail(self)
    [] self.cls = DiscreteGaussianPrivacyLoss -> DiscreteGaussianTail(self)

\* ConnectDotsBounds: set names the attributes that are not None, the
\* others hold a placeholder
EpsilonBounds_WithX(epsilon_upper, epsilon_lower) ==
  [set |-> {"epsilon_upper", "epsilon_lower", "lower_x", "upper_x"},
   epsilon_upper |-> epsilon_upper, epsilon_lower |-> epsilon_lower,
   lower_x |-> 0, upper_x |-> 0]

EpsilonBounds(epsilon_upper, epsilon_lower) ==
  [set |-> {"epsilon_upper", "epsilon_lower"},
   epsilon_upper |-> epsilon_upper, epsilon_lower |-> epsilon_lower,
   lower_x |-> 0, upper_x |-> 0]

XBounds(lower_x, upper_x) ==
  [set |-> {"lower_x", "upper_x"},
   epsilon_upper |-> Zero, epsilon_lower |-> Zero,
   lower_x |-> lower_x, upper_x |-> upper_x]

LaplaceConnectDotsBounds_NoSampling(self) ==
  LET max_epsilon == RPow(self.base, self.sensitivity)
  IN  EpsilonBounds(max_epsilon, RInv(max_epsilon))

LaplaceConnectDotsBounds(self) ==
  LET max_epsilon == RPow(self.base, self.sensitivity)
      q == self.sampling_prob
  IN  IF q = One THEN EpsilonBounds(max_epsilon, RInv(max_epsilon))
      ELSE IF self.adjacency_type = ADD
      THEN EpsilonBounds(
             RInv(RAdd(RSub(One, q), RMul(q, RInv(max_epsilon)))),
             RInv(RAdd(RSub(One, q), RMul(q, max_epsilon))))
      ELSE EpsilonBounds(
             RAdd(RSub(One, q), RMul(q, max_epsilon)),
             RAdd(RSub(One, q), RMul(q, RInv(max_epsilon))))

GaussianConnectDotsBounds(self) ==
  LET tail_pld == GaussianTail(self)
  IN  EpsilonBounds(LossAtPoint(self, tail_pld.lower_x_truncation),
                    LossAtPoint(self, tail_pld.upper_x_truncation))

DiscreteLaplaceConnectDotsBounds_Truncations(self) ==
  IF self.adjacency_type = ADD THEN XBounds(1, self.sensitivity - 1)
  ELSE XBounds(1 - self.sensitivity, -1)

DiscreteLaplaceConnectDotsBounds(self) ==
  IF self.adjacency_type = ADD THEN XBounds(0, self.sensitivity)
  ELSE XBounds(-self.sensitivity, 0)

DiscreteGaussianConnectDotsBounds_Swapped(self) ==
  LET tail_pld == DiscreteGaussianTail(self)
  IN  XBounds(tail_pld.upper_x_truncation, tail_pld.lower_x_truncation)

DiscreteGaussianConnectDotsBounds(self) ==
  LET tail_pld == DiscreteGaussianTail(self)
  IN  XBounds(tail_pld.lower_x_truncation, tail_pld.upper_x_truncation)

connect_dots_bounds(self) ==
  CASE self.cls = LaplacePrivacyLoss -> LaplaceConnectDotsBounds(self)
    [] self.cls = GaussianPrivacyLoss -> GaussianConnectDotsBounds(self)
    [] self.cls = DiscreteLaplacePrivacyLoss ->
         DiscreteLaplaceConnectDotsBounds(self)
    [] self.cls = DiscreteGaussianPrivacyLoss ->
         DiscreteGaussianConnectDotsBounds(self)

----------------------------------------------------------------------------
(* Calibration.  from_privacy_guarantee returns [err, instance, probes]:   *)
(* probes are the instances it constructed to evaluate candidates of the   *)
(* search, in the order of construction.                                   *)

Calibrated(instance, probes) ==
  [err |-> FALSE, instance |-> instance, probes |-> probes]

RaiseCalibration(probes) ==
  [err |-> TRUE, instance |-> NoInstance, probes |-> probes]

\* 1 + (exp(epsilon) - 1) / sampling_prob
CalibrationTarget(epsilon, sampling_prob) ==
  RAdd(One, RMul(RSub(epsilon, One), RInv(sampling_prob)))

\* the base whose sensitivity-th power is the target
ExactRoot(target, sensitivity) ==
  CHOOSE b \in LaplaceBases : RPow(b, sensitivity) = target

\* parameter = sensitivity / log(target), so exp(unit / parameter) = target
\* for unit = 1: the grid unit is one and base^sensitivity = target.  A
\* sensitivity or sampling_prob outside the valid range gives a parameter or
\* arguments the constructor rejects.
LaplaceFromPrivacyGuarantee(epsilon, delta, sensitivity, sampling_prob, adj) ==
  IF BaseInitFails(sensitivity, sampling_prob) THEN RaiseCalibration(<<>>)
  ELSE Calibrated(
         NewLaplace(ExactRoot(CalibrationTarget(epsilon, sampling_prob),
                              sensitivity),
                    sensitivity, sampling_prob, adj), <<>>)

\* parameter = log(target) / sensitivity, so exp(parameter)^sensitivity =
\* target
DiscreteLaplaceFromPrivacyGuarantee(epsilon, delta, sensitivity, sampling_prob, adj) ==
  IF sensitivity <= 0 THEN RaiseCalibration(<<>>)
  ELSE IF RLe(sampling_prob, Zero) THEN RaiseCalibration(<<>>)
  ELSE IF BaseInitFails(sensitivity, sampling_prob)
  THEN RaiseCalibration(<<>>)
  ELSE Calibrated(
         NewDiscreteLaplace(ExactRoot(CalibrationTarget(epsilon,
                                                        sampling_prob),
                                      sensitivity),
                            sensitivity, sampling_prob, adj), <<>>)

\* common.inverse_monotone_function for a non-increasing function whose
\* values at the candidates, listed from the smallest candidate, are given:
\* the first candidate whose value is at most the target.
inverse_monotone_function(values, target) ==
  LET found == {i \in 1..Len(values) : RLe(values[i], target)}
  IN  CHOOSE i \in found : \A j \in found : i <= j

\* The standard deviations the search evaluates, from the smallest.  The
\* base of a Gaussian instance is fixed, so that a standard deviation is
\* named by the number of grid units the sensitivity counts.
GaussianSearchSensitivities == <<3, 1>>

GaussianProbe_RequestedAdjacency(k, sampling_prob, adj) ==
  NewGaussian(2, k, TRUE, sampling_prob, adj)

GaussianProbe(k, sampling_prob, adj) ==
  NewGaussian(2, k, TRUE, sampling_prob, REMOVE)

GaussianProbes(sampling_prob, adj) ==
  [i \in 1..Len(GaussianSearchSensitivities) |->
     GaussianProbe(GaussianSearchSensitivities[i], sampling_prob, adj)]

ProbeDeltas(probe_list, epsilon) ==
  [i \in 1..Len(probe_list) |->
     get_delta_for_epsilon(probe_list[i], <<epsilon>>).deltas[1]]

GaussianFromPrivacyGuarantee_LateCheck(epsilon, delta, pessimistic_estimate, sampling_prob, adj) ==
  IF BaseInitFails(1, sampling_prob) THEN RaiseCalibration(<<>>)
  ELSE LET probe_list == GaussianProbes(sampling_prob, adj)
           found == inverse_monotone_function(
                      ProbeDeltas(probe_list, epsilon), delta)
       IN  IF delta = Zero THEN RaiseCalibration(probe_list)
           ELSE Calibrated(NewGaussian(2, GaussianSearchSensitivities[found],
                                       pessimistic_estimate, sampling_prob,
                                       adj),
                           probe_list)

GaussianFromPrivacyGuarantee(epsilon, delta, pessimistic_estimate, sampling_prob, adj) ==
  IF delta = Zero THEN RaiseCalibration(<<>>)
  ELSE IF BaseInitFails(1, sampling_prob) THEN RaiseCalibration(<<>>)
  ELSE LET probe_list == GaussianProbes(sampling_prob, adj)
           found == inverse_monotone_function(
                      ProbeDeltas(probe_list, epsilon), delta)
       IN  Calibrated(NewGaussian(2, GaussianSearchSensitivities[found],
                                       pessimistic_estimate, sampling_prob,
                                       adj),
                           probe_list)

\* The sigmas the search evaluates, from the smallest, each named by its
\* base exp(1 / (2 sigma^2)).
DiscreteGaussianSearchBases == <<4, 2>>

\* math.ceil(11.6 * sigma), the truncation bound of an instance constructed
\* without one, is beyond exact arithmetic: a bound of 2 stands for it
DefaultTruncationBound == 2

DiscreteGaussianProbe_NoSampling(base, sensitivity, sampling_prob, adj) ==
  NewDiscreteGaussian(base, sensitivity, DefaultTruncationBound, One, REMOVE)

DiscreteGaussianProbe(base, sensitivity, sampling_prob, adj) ==
  NewDiscreteGaussian(base, sensitivity, DefaultTruncationBound,
                      sampling_prob, REMOVE)

DiscreteGaussianProbes(sensitivity, sampling_prob, adj) ==
  [i \in 1..Len(DiscreteGaussianSearchBases) |->
     DiscreteGaussianProbe(DiscreteGaussianSearchBases[i], sensitivity,
                           sampling_prob, adj)]

DiscreteGaussianFromPrivacyGuarantee(epsilon, delta, sensitivity, sampling_prob, adj) ==
  IF delta = Zero THEN RaiseCalibration(<<>>)
  ELSE IF \/ DiscreteGaussianInitFails(sensitivity, DefaultTruncationBound)
          \/ BaseInitFails(sensitivity, sampling_prob)
  THEN RaiseCalibration(<<>>)
  ELSE LET probe_list == DiscreteGaussianProbes(sensitivity, sampling_prob,
                                                adj)
           found == inverse_monotone_function(
                      ProbeDeltas(probe_list, epsilon), delta)
       IN  Calibrated(
                  NewDiscreteGaussian(DiscreteGaussianSearchBases[found],
                                      sensitivity, DefaultTruncationBound,
                                      sampling_prob, adj),
                  probe_list)

from_privacy_guarantee(cls, epsilon, delta, sensitivity, pessimistic_estimate, sampling_prob, adj) ==
  CASE cls = LaplacePrivacyLoss ->
         LaplaceFromPrivacyGuarantee(epsilon, delta, sensitivity,
                                     sampling_prob, adj)
    [] cls = GaussianPrivacyLoss ->
         GaussianFromPrivacyGuarantee(epsilon, delta, pessimistic_estimate,
                                      sampling_prob, adj)
    [] cls = DiscreteLaplacePrivacyLoss ->
         DiscreteLaplaceFromPrivacyGuarantee(epsilon, delta, sensitivity,
                                             sampling_prob, adj)
    [] cls = DiscreteGaussianPrivacyLoss ->
         DiscreteGaussianFromPrivacyGuarantee(epsilon, delta, sensitivity,
                                              sampling_prob, adj)

\* Targets of the calibration.  The epsilons of the two Laplace mechanisms
\* are those a base of the model achieves; the epsilons of the Gaussian
\* mechanism are on the grid of every candidate; the deltas of the two
\* Gaussian mechanisms include the ones the candidates achieve.
Classes ==
  {LaplacePrivacyLoss, GaussianPrivacyLoss, DiscreteLaplacePrivacyLoss,
   DiscreteGaussianPrivacyLoss}

CalibrationEpsilons(cls, sensitivity, sampling_prob) ==
  CASE cls \in {LaplacePrivacyLoss, DiscreteLaplacePrivacyLoss} ->
         IF BaseInitFails(sensitivity, sampling_prob) THEN {<<2, 1>>}
         ELSE {RAdd(RMul(sampling_prob, RPow(b, sensitivity)),
                    RSub(One, sampling_prob)) : b \in LaplaceBases}
    [] cls = GaussianPrivacyLoss ->
         IF BaseInitFails(1, sampling_prob) THEN {<<8, 1>>}
         ELSE {RAdd(RMul(sampling_prob, <<8, 1>>), RSub(One, sampling_prob))}
    [] OTHER -> {<<3, 2>>, <<3, 1>>}

CalibrationDeltas(cls, epsilon, sensitivity, sampling_prob) ==
  {Zero} \cup
    CASE cls = GaussianPrivacyLoss /\ ~BaseInitFails(1, sampling_prob) ->
           LET d == ProbeDeltas(GaussianProbes(sampling_prob, REMOVE),
                                epsilon)
           IN  {d[i] : i \in 1..Len(d)}
      [] /\ cls = DiscreteGaussianPrivacyLoss
         /\ ~BaseInitFails(sensitivity, sampling_prob)
         /\ ~DiscreteGaussianInitFails(sensitivity,
                                       DefaultTruncationBound) ->
           LET d == ProbeDeltas(DiscreteGaussianProbes(sensitivity,
                                                       sampling_prob,
                                                       REMOVE), epsilon)
           IN  {d[i] : i \in 1..Len(d)}
      [] OTHER -> {<<1, 4>>}

----------------------------------------------------------------------------
(* State: one mechanism instance and the last call made on it.  Instances  *)
(* are immutable and every method is a function of the instance and its    *)
(* arguments.                                                              *)

VARIABLES
  self,           \* the instance the last constructor call returned
  method,         \* the last method called, "" before the first call
  args,           \* its arguments
  ret,            \* what it returned, or that it raised
  inverse_calls,  \* the losses it evaluated inverse_privacy_loss for
  probes          \* the instances from_privacy_guarantee built for its search

vars == <<self, method, args, ret, inverse_calls, probes>>

\* parameter_positive: the noise parameter (parameter, standard_deviation,
\* sigma) is > 0
NoArgs == [epsilons |-> <<>>, privacy_loss |-> Zero, ulp |-> 0, x |-> 0,
           x_is_int |-> TRUE, cls |-> "None", parameter_positive |-> TRUE,
           sensitivity |-> 0, sampling_prob |-> One,
           adjacency_type |-> REMOVE, epsilon |-> One, delta |-> Zero,
           truncation_bound |-> 0, truncation_bound_given |-> TRUE]

NoRet == [err |-> FALSE, deltas |-> <<>>, x |-> 0, loss |-> Zero,
          tail |-> TailPrivacyLossDistribution(0, 0, <<>>),
          bounds |-> XBounds(0, 0), arrays_built |-> FALSE]

Raised == [NoRet EXCEPT !.err = TRUE]

Init ==
  /\ self = NoInstance
  /\ method = ""
  /\ args = NoArgs
  /\ ret = NoRet
  /\ inverse_calls = <<>>
  /\ probes = <<>>

\* a constructor or class method runs first: it makes the instance the
\* other calls are made on
Idle == method = ""

\* the arguments of a constructor call
InitArgs(cls, parameter_positive, sensitivity, sampling_prob, adjacency_type) ==
  [NoArgs EXCEPT !.cls = cls, !.parameter_positive = parameter_positive,
                 !.sensitivity = sensitivity,
                 !.sampling_prob = sampling_prob,
                 !.adjacency_type = adjacency_type]

Constructed(instance, fails, init_args) ==
  /\ Idle
  /\ self' = IF fails THEN NoInstance ELSE instance
  /\ method' = "__init__"
  /\ args' = init_args
  /\ ret' = IF fails THEN Raised ELSE NoRet
  /\ inverse_calls' = <<>>
  /\ probes' = <<>>

\* parameter <= 0 raises, then the base class validates
ConstructLaplace ==
  \E base \in LaplaceBases, parameter_positive \in BOOLEAN,
     sensitivity \in Sensitivities,
     sampling_prob \in SamplingProbs, adjacency_type \in AdjacencyType :
    Constructed(NewLaplace(base, sensitivity, sampling_prob, adjacency_type),
                \/ ~parameter_positive
                \/ BaseInitFails(sensitivity, sampling_prob),
                InitArgs(LaplacePrivacyLoss, parameter_positive, sensitivity,
                         sampling_prob, adjacency_type))

\* standard_deviation <= 0 raises, then the base class validates
ConstructGaussian ==
  \E base \in GaussianBases, parameter_positive \in BOOLEAN,
     sensitivity \in Sensitivities,
     pessimistic_estimate \in BOOLEAN,
     sampling_prob \in SamplingProbs, adjacency_type \in AdjacencyType :
    Constructed(NewGaussian(base, sensitivity, pessimistic_estimate,
                            sampling_prob, adjacency_type),
                \/ ~parameter_positive
                \/ BaseInitFails(sensitivity, sampling_prob),
                InitArgs(GaussianPrivacyLoss, parameter_positive, sensitivity,
                         sampling_prob, adjacency_type))

\* parameter <= 0 raises, then the base class validates
ConstructDiscreteLaplace ==
  \E base \in LaplaceBases, parameter_positive \in BOOLEAN,
     sensitivity \in Sensitivities,
     sampling_prob \in SamplingProbs, adjacency_type \in AdjacencyType :
    Constructed(NewDiscreteLaplace(base, sensitivity, sampling_prob,
                                   adjacency_type),
                \/ ~parameter_positive
                \/ BaseInitFails(sensitivity, sampling_prob),
                InitArgs(DiscreteLaplacePrivacyLoss, parameter_positive,
                         sensitivity, sampling_prob, adjacency_type))

\* sigma <= 0 raises, then the truncation bound check, then the arrays are
\* built and the base class validates
ConstructDiscreteGaussian ==
  \E base \in GaussianBases, parameter_positive \in BOOLEAN,
     sensitivity \in Sensitivities,
     truncation_bound \in 0..MaxTruncationBound,
     truncation_bound_given \in BOOLEAN,
     sampling_prob \in SamplingProbs, adjacency_type \in AdjacencyType :
    LET bound == IF truncation_bound_given THEN truncation_bound
                 ELSE DefaultTruncationBound
        arrays_built == /\ parameter_positive
                        /\ ~DiscreteGaussianInitFails(sensitivity, bound)
        fails == ~arrays_built \/ BaseInitFails(sensitivity, sampling_prob)
    IN  /\ truncation_bound_given \/ truncation_bound = 0
        /\ Idle
        /\ self' = IF fails THEN NoInstance
                   ELSE NewDiscreteGaussian(base, sensitivity, bound,
                                            sampling_prob, adjacency_type)
        /\ method' = "__init__"
        /\ args' = [InitArgs(DiscreteGaussianPrivacyLoss, parameter_positive,
                             sensitivity, sampling_prob, adjacency_type)
                      EXCEPT !.truncation_bound = bound,
                             !.truncation_bound_given = truncation_bound_given]
        /\ ret' = [NoRet EXCEPT !.err = fails, !.arrays_built = arrays_built]
        /\ inverse_calls' = <<>>
        /\ probes' = <<>>

\* a constructor call with valid arguments and a sampling_prob of
\* RoundedSamplingProbs; the discrete Gaussian takes its default
\* truncation bound
ConstructRounded ==
  \E cls \in Classes, sensitivity \in 1..MaxSensitivity,
     sampling_prob \in RoundedSamplingProbs,
     adjacency_type \in AdjacencyType, pessimistic_estimate \in BOOLEAN :
    \E base \in IF cls \in {LaplacePrivacyLoss, DiscreteLaplacePrivacyLoss}
                THEN LaplaceBases ELSE GaussianBases :
      LET fails == \/ BaseInitFails(sensitivity, sampling_prob)
                   \/ /\ cls = DiscreteGaussianPrivacyLoss
                      /\ DiscreteGaussianInitFails(sensitivity,
                                                   DefaultTruncationBound)
          instance ==
            CASE cls = LaplacePrivacyLoss ->
                   NewLaplace(base, sensitivity, sampling_prob,
                              adjacency_type)
              [] cls = GaussianPrivacyLoss ->
                   NewGaussian(base, sensitivity, pessimistic_estimate,
                               sampling_prob, adjacency_type)
              [] cls = DiscreteLaplacePrivacyLoss ->
                   NewDiscreteLaplace(base, sensitivity, sampling_prob,
                                      adjacency_type)
              [] cls = DiscreteGaussianPrivacyLoss ->
                   NewDiscreteGaussian(base, sensitivity,
                                       DefaultTruncationBound,
                                       sampling_prob, adjacency_type)
      IN  /\ cls = GaussianPrivacyLoss \/ pessimistic_estimate
          /\ Constructed(instance, fails,
                         InitArgs(cls, TRUE, sensitivity, sampling_prob,
                                  adjacency_type))

\* exp(unit / parameter) for a parameter so large (math.inf, or 1e200 with
\* a sensitivity of 1e-200) that the floating-point quotient of every
\* difference of points by parameter is 0.0 or -0.0
UnderflowBases == {1}

\* LaplacePrivacyLoss.__init__ with valid arguments and such a parameter
ConstructLaplaceUnderflow ==
  \E base \in UnderflowBases, sensitivity \in 1..MaxSensitivity,
     sampling_prob \in {q \in SamplingProbs : ~BaseInitFails(1, q)},
     adjacency_type \in AdjacencyType :
    /\ Idle
    /\ Constructed(NewLaplace(base, sensitivity, sampling_prob,
                              adjacency_type),
                   BaseInitFails(sensitivity, sampling_prob),
                   InitArgs(LaplacePrivacyLoss, TRUE, sensitivity,
                            sampling_prob, adjacency_type))

\* a class method: it returns a new instance
FromPrivacyGuarantee ==
  /\ Idle
  /\ \E cls \in Classes, sampling_prob \in SamplingProbs,
        adjacency_type \in AdjacencyType, pessimistic_estimate \in BOOLEAN :
       \E sensitivity \in IF cls = GaussianPrivacyLoss THEN {1}
                          ELSE Sensitivities :
         \E epsilon \in CalibrationEpsilons(cls, sensitivity, sampling_prob) :
           \E delta \in CalibrationDeltas(cls, epsilon, sensitivity,
                                          sampling_prob) :
             LET r == from_privacy_guarantee(cls, epsilon, delta, sensitivity,
                                             pessimistic_estimate,
                                             sampling_prob, adjacency_type)
             IN  /\ pessimistic_estimate \/ cls = GaussianPrivacyLoss
                 /\ self' = r.instance
                 /\ method' = "from_privacy_guarantee"
                 /\ args' = [InitArgs(cls, TRUE, sensitivity, sampling_prob,
                                      adjacency_type)
                               EXCEPT !.epsilon = epsilon, !.delta = delta]
                 /\ ret' = IF r.err THEN Raised ELSE NoRet
                 /\ inverse_calls' = <<>>
                 /\ probes' = r.probes

\* a method may be called on a constructed instance
Callable == method = "__init__" /\ self # NoInstance

GetDeltaForEpsilon ==
  /\ Callable
  /\ \E epsilons \in EpsilonLists(self) :
       LET r == get_delta_for_epsilon(self, epsilons)
       IN  /\ method' = "get_delta_for_epsilon"
           /\ args' = [NoArgs EXCEPT !.epsilons = epsilons]
           /\ ret' = [NoRet EXCEPT !.err = r.err, !.deltas = r.deltas]
           /\ inverse_calls' = r.inverse_calls
  /\ UNCHANGED <<self, probes>>

InversePrivacyLoss ==
  /\ Callable
  /\ \E L \in PrivacyLosses(self), ulp \in {-1, 0, 1} :
       /\ ulp # 0 => L \in Thresholds(self)
       /\ LET r == inverse_privacy_loss(self, L, ulp)
          IN  /\ method' = "inverse_privacy_loss"
              /\ args' = [NoArgs EXCEPT !.privacy_loss = L, !.ulp = ulp]
              /\ ret' = [NoRet EXCEPT !.err = r.err, !.x = r.val]
              /\ inverse_calls' = <<L>>
  /\ UNCHANGED <<self, probes>>

InversePrivacyLossWithoutSubsampling ==
  /\ Callable
  /\ \E L \in PrivacyLossesWithoutSubsampling(self) :
       /\ method' = "inverse_privacy_loss_without_subsampling"
       /\ args' = [NoArgs EXCEPT !.privacy_loss = L]
       /\ ret' = [NoRet EXCEPT
                    !.x = inverse_privacy_loss_without_subsampling(self, L)]
       /\ inverse_calls' = <<>>
  /\ UNCHANGED <<self, probes>>

PrivacyLoss ==
  /\ Callable
  /\ \E x \in InputPoints(self), x_is_int \in BOOLEAN :
       LET r == privacy_loss(self, x, x_is_int)
       IN  /\ method' = "privacy_loss"
           /\ args' = [NoArgs EXCEPT !.x = x, !.x_is_int = x_is_int]
           /\ ret' = [NoRet EXCEPT !.err = r.err, !.loss = r.val]
           /\ inverse_calls' = <<>>
  /\ UNCHANGED <<self, probes>>

PrivacyLossWithoutSubsampling ==
  /\ Callable
  /\ \E x \in InputPoints(self), x_is_int \in BOOLEAN :
       LET r == privacy_loss_without_subsampling(self, x, x_is_int)
       IN  /\ method' = "privacy_loss_without_subsampling"
           /\ args' = [NoArgs EXCEPT !.x = x, !.x_is_int = x_is_int]
           /\ ret' = [NoRet EXCEPT !.err = r.err, !.loss = r.val]
           /\ inverse_calls' = <<>>
  /\ UNCHANGED <<self, probes>>

PrivacyLossTail ==
  /\ Callable
  /\ method' = "privacy_loss_tail"
  /\ args' = NoArgs
  /\ ret' = [NoRet EXCEPT !.tail = privacy_loss_tail(self)]
  /\ inverse_calls' = <<>>
  /\ UNCHANGED <<self, probes>>

ConnectDotsBounds ==
  /\ Callable
  /\ method' = "connect_dots_bounds"
  /\ args' = NoArgs
  /\ ret' = [NoRet EXCEPT !.bounds = connect_dots_bounds(self)]
  /\ inverse_calls' = <<>>
  /\ UNCHANGED <<self, probes>>

\* the caller drops the result; the instance is ready for the next call
Discard ==
  /\ method \notin {"", "__init__"}
  /\ method' = "__init__"
  /\ args' = NoArgs
  /\ ret' = NoRet
  /\ inverse_calls' = <<>>
  /\ probes' = <<>>
  /\ UNCHANGED self

Next ==
  \/ ConstructLaplace
  \/ ConstructGaussian
  \/ ConstructDiscreteLaplace
  \/ ConstructDiscreteGaussian
  \/ FromPrivacyGuarantee
  \/ GetDeltaForEpsilon
  \/ InversePrivacyLoss
  \/ InversePrivacyLossWithoutSubsampling
  \/ PrivacyLoss
  \/ PrivacyLossWithoutSubsampling
  \/ PrivacyLossTail
  \/ ConnectDotsBounds
  \/ Discard

Spec == Init /\ [][Next]_vars

\* the calls of get_delta_for_epsilon on instances whose sampling_prob is
\* in RoundedSamplingProbs
NextRounded ==
  \/ ConstructRounded
  \/ GetDeltaForEpsilon
  \/ Discard

SpecRounded == Init /\ [][NextRounded]_vars

\* the calls on Laplace instances whose parameter is in UnderflowBases
NextUnderflow ==
  \/ ConstructLaplaceUnderflow
  \/ PrivacyLoss
  \/ PrivacyLossTail
  \/ ConnectDotsBounds
  \/ Discard

SpecUnderflow == Init /\ [][NextUnderflow]_vars

----------------------------------------------------------------------------
(* Properties *)

InList(seq, e) == \E i \in 1..Len(seq) : seq[i] = e

IsGetDelta == method = "get_delta_for_epsilon"

SubSampled == self.sampling_prob # One

\* -log(1 - sampling_prob)
AddThreshold == RInv(RSub(One, self.sampling_prob))

\* log(1 - sampling_prob)
RemoveThreshold == RSub(One, self.sampling_prob)

\* C1: under ADD adjacency with sampling_prob < 1, get_delta_for_epsilon
\* returns exactly 0 for every epsilon >= -log(1 - sampling_prob), and does
\* not evaluate inverse_privacy_loss for that epsilon.
C1_AddDeltaZeroFromThreshold ==
  (IsGetDelta /\ self.adjacency_type = ADD /\ SubSampled) =>
    /\ ~ret.err
    /\ \A i \in 1..Len(args.epsilons) :
         RLe(AddThreshold, args.epsilons[i]) =>
           /\ ret.deltas[i] = Zero
           /\ ~InList(inverse_calls, args.epsilons[i])

\* a call with one epsilon at the threshold and one above it has returned
C1_Witness ==
  /\ IsGetDelta /\ self.adjacency_type = ADD /\ SubSampled
  /\ Len(args.epsilons) = 2
  /\ args.epsilons[1] = AddThreshold
  /\ RLt(AddThreshold, args.epsilons[2])
  /\ ret.deltas = <<Zero, Zero>>

\* C2: under REMOVE adjacency with sampling_prob < 1, get_delta_for_epsilon
\* returns exactly 1 - exp(epsilon) for every epsilon <= log(1 - sampling_prob),
\* and does not evaluate inverse_privacy_loss for that epsilon.
C2_RemoveDeltaBelowThreshold ==
  (IsGetDelta /\ self.adjacency_type = REMOVE /\ SubSampled) =>
    /\ ~ret.err
    /\ \A i \in 1..Len(args.epsilons) :
         RLe(args.epsilons[i], RemoveThreshold) =>
           /\ ret.deltas[i] = RSub(One, args.epsilons[i])
           /\ ~InList(inverse_calls, args.epsilons[i])

\* a call with one epsilon below the threshold and one at it has returned
C2_Witness ==
  /\ IsGetDelta /\ self.adjacency_type = REMOVE /\ SubSampled
  /\ Len(args.epsilons) = 2
  /\ args.epsilons[2] = RemoveThreshold
  /\ RLt(args.epsilons[1], RemoveThreshold)
  /\ ret.deltas[2] = self.sampling_prob
  /\ RLt(ret.deltas[2], ret.deltas[1])

\* The hockey stick divergence by direct summation, from the definitions
\* of mu, mu_upper and mu_lower in the class docstrings.

\* mu(x): Z * exp(-a |x|) with Z = (e^a - 1) / (e^a + 1) for the discrete
\* Laplace noise, exp(-0.5 x^2 / sigma^2) normalised over
\* -truncation_bound..truncation_bound for the discrete Gaussian noise
NoisePmf(inst, x) ==
  IF inst.cls = DiscreteLaplacePrivacyLoss
  THEN RMul(<<inst.base - 1, inst.base + 1>>, RPow(inst.base, -Abs(x)))
  ELSE IF Abs(x) > inst.truncation_bound THEN Zero
  ELSE RMul(DiscreteGaussianWeight(inst.base, x),
            RInv(LogAddExpAccumulate(inst.base, inst.truncation_bound,
                                     2 * inst.truncation_bound + 2)))

MuUpperPmf(inst, x) ==
  IF inst.adjacency_type = ADD THEN NoisePmf(inst, x)
  ELSE RAdd(RMul(RSub(One, inst.sampling_prob), NoisePmf(inst, x)),
            RMul(inst.sampling_prob, NoisePmf(inst, x + inst.sensitivity)))

MuLowerPmf(inst, x) ==
  IF inst.adjacency_type = ADD
  THEN RAdd(RMul(RSub(One, inst.sampling_prob), NoisePmf(inst, x)),
            RMul(inst.sampling_prob, NoisePmf(inst, x - inst.sensitivity)))
  ELSE NoisePmf(inst, x)

\* max(0, mu_upper(x) - exp(eps) * mu_lower(x))
HockeyStickTerm(inst, eps, x) ==
  LET t == RSub(MuUpperPmf(inst, x), RMul(eps, MuLowerPmf(inst, x)))
  IN  IF RLt(t, Zero) THEN Zero ELSE t

RECURSIVE HockeyStickSum(_, _, _, _)
HockeyStickSum(inst, eps, lo, hi) ==
  IF lo > hi THEN Zero
  ELSE RAdd(HockeyStickTerm(inst, eps, lo),
            HockeyStickSum(inst, eps, lo + 1, hi))

\* Beyond w = truncation_bound + sensitivity + 1 the discrete Gaussian has
\* no mass; the discrete Laplace terms form two geometric series of ratio
\* 1 / base, whose sums beyond -w and w are the terms at -w and w divided
\* by base - 1.
HockeyStickDivergence(inst, eps) ==
  LET w == inst.truncation_bound + inst.sensitivity + 1
      inner == HockeyStickSum(inst, eps, -w, w)
  IN  IF inst.cls = DiscreteLaplacePrivacyLoss
      THEN RAdd(inner,
                RMul(RAdd(HockeyStickTerm(inst, eps, -w),
                          HockeyStickTerm(inst, eps, w)),
                     <<1, inst.base - 1>>))
      ELSE inner

\* C3: for the discrete mechanisms, the value get_delta_for_epsilon computes
\* on the cutoff path, mu_upper_cdf(x*) - exp(eps) * mu_lower_cdf(x*) with
\* x* = inverse_privacy_loss(eps), is the hockey stick divergence computed
\* by direct summation over the integers, for every adjacency type and
\* sampling probability.
C3_CutoffIsHockeyStick ==
  (IsGetDelta /\ self.discrete_noise /\ ~ret.err) =>
    \A i \in 1..Len(args.epsilons) :
      InverseIndex(self, args.epsilons[i]) =>
        ret.deltas[i] = HockeyStickDivergence(self, args.epsilons[i])


\* a discrete mechanism with sub-sampling returned, on the cutoff path, a
\* divergence strictly between 0 and 1 that is the direct sum
C3_Witness ==
  /\ IsGetDelta /\ self.discrete_noise /\ SubSampled
  /\ Len(args.epsilons) = 1
  /\ InverseIndex(self, args.epsilons[1])
  /\ RLt(Zero, ret.deltas[1]) /\ RLt(ret.deltas[1], One)
  /\ ret.deltas[1] = HockeyStickDivergence(self, args.epsilons[1])
  /\ inverse_calls = args.epsilons

OtherAdjacency(inst) ==
  [inst EXCEPT !.adjacency_type = IF @ = ADD THEN REMOVE ELSE ADD]

\* C5: with sampling_prob = 1, instances that differ only in the adjacency
\* type return the same get_delta_for_epsilon for every epsilon; the REMOVE
\* cutoff is the ADD cutoff minus the sensitivity.
C5_AdjacencyIrrelevantWithoutSubsampling ==
  (self.sampling_prob = One /\ self.cls # "None") =>
    /\ IsGetDelta =>
         ret.deltas = get_delta_for_epsilon(OtherAdjacency(self),
                                            args.epsilons).deltas
    /\ (method = "inverse_privacy_loss" /\ self.adjacency_type = ADD) =>
         inverse_privacy_loss(OtherAdjacency(self), args.privacy_loss,
                              args.ulp).val
           = XAdd(ret.x, -self.sensitivity)

\* a call without sub-sampling returned a delta strictly between 0 and 1
\* from a finite cutoff
C5_Witness ==
  /\ IsGetDelta /\ self.sampling_prob = One
  /\ Len(args.epsilons) = 1
  /\ RLt(Zero, ret.deltas[1]) /\ RLt(ret.deltas[1], One)
  /\ ~IsInfX(inverse_privacy_loss(self, args.epsilons[1], 0).val)
  /\ ret.deltas = get_delta_for_epsilon(OtherAdjacency(self),
                                        args.epsilons).deltas


\* the points at which the claims about all x are evaluated
Window(inst) ==
  IF inst.cls = GaussianPrivacyLoss THEN InputPoints(inst)
  ELSE -(MaxX + MaxSensitivity)..(MaxX + MaxSensitivity)

\* the loss at x, with or without the sub-sampling fold
LossAt(inst, x, folded) ==
  IF folded THEN privacy_loss(inst, x, TRUE)
  ELSE privacy_loss_without_subsampling(inst, x, TRUE)

Admissible(inst, folded) ==
  {x \in Window(inst) : ~LossAt(inst, x, folded).err}

Qualifies(inst, x, L, folded) == RLe(L, LossAt(inst, x, folded).val)

\* result is the largest x with loss at least L: +infinity when every x
\* qualifies, -infinity when none does
IsLargestWithLossAtLeast(inst, L, result, folded) ==
  LET adm == Admissible(inst, folded)
      \* beyond the window the Gaussian loss decreases without bound, to
      \* -infinity, or to log(1 - q) when folded under REMOVE, and grows
      \* to +infinity, or to -log(1 - q) when folded under ADD
      gaussian == inst.cls = GaussianPrivacyLoss
      sampled == folded /\ inst.sampling_prob # One
      infimum == IF sampled /\ inst.adjacency_type = REMOVE
                 THEN RSub(One, inst.sampling_prob) ELSE Zero
      supremum == IF sampled /\ inst.adjacency_type = ADD
                  THEN RInv(RSub(One, inst.sampling_prob)) ELSE PosInf
  IN  IF /\ \A x \in adm : Qualifies(inst, x, L, folded)
         /\ gaussian => RLe(L, infimum)
      THEN result = XInf
      ELSE IF /\ \A x \in adm : ~Qualifies(inst, x, L, folded)
              /\ gaussian => RLe(supremum, L)
      THEN result = -XInf
      ELSE /\ result \in adm
           /\ Qualifies(inst, result, L, folded)
           /\ \A x \in adm : x > result => ~Qualifies(inst, x, L, folded)

\* C6: inverse_privacy_loss(L) and inverse_privacy_loss_without_subsampling(L)
\* return, for every mechanism and every L including +infinity and
\* -infinity, the largest x whose privacy loss is at least L, +infinity
\* when every x qualifies and -infinity when none does.
C6_InverseIsLargest ==
  /\ (method = "inverse_privacy_loss" /\ args.ulp = 0) =>
       /\ ~ret.err
       /\ IsLargestWithLossAtLeast(self, args.privacy_loss, ret.x, TRUE)
  /\ method = "inverse_privacy_loss_without_subsampling" =>
       IsLargestWithLossAtLeast(self, args.privacy_loss, ret.x, FALSE)


IsInverse == method = "inverse_privacy_loss"

\* C7: under ADD adjacency with sampling_prob < 1, inverse_privacy_loss(L)
\* returns inverse_privacy_loss_without_subsampling(+infinity), and does not
\* fail, for every L >= -log(1 - sampling_prob).
C7_AddInverseFromThreshold ==
  (IsInverse /\ self.adjacency_type = ADD /\ SubSampled
     /\ AtLeast(args.privacy_loss, args.ulp, AddThreshold)) =>
    /\ ~ret.err
    /\ ret.x = inverse_privacy_loss_without_subsampling(self, PosInf)

\* C8: under REMOVE adjacency with sampling_prob < 1, inverse_privacy_loss(L)
\* returns inverse_privacy_loss_without_subsampling(-infinity), and does not
\* fail, for every L <= log(1 - sampling_prob).
C8_RemoveInverseToThreshold ==
  (IsInverse /\ self.adjacency_type = REMOVE /\ SubSampled
     /\ AtMost(args.privacy_loss, args.ulp, RemoveThreshold)) =>
    /\ ~ret.err
    /\ ret.x = inverse_privacy_loss_without_subsampling(self, Zero)

C10_PrivacyLossNonIncreasing ==
  (method = "privacy_loss" /\ ~ret.err) =>
    \A x2 \in Admissible(self, TRUE) :
      /\ x2 >= args.x => RLe(privacy_loss(self, x2, TRUE).val, ret.loss)
      /\ x2 <= args.x => RLe(ret.loss, privacy_loss(self, x2, TRUE).val)

\* a sub-sampled loss was returned that is finite, strictly below the loss
\* at a smaller point and strictly above the loss at a larger one
C10_Witness ==
  /\ method = "privacy_loss" /\ ~ret.err /\ SubSampled
  /\ IsFinite(ret.loss) /\ ret.loss # Zero
  /\ \E x1, x2 \in Admissible(self, TRUE) :
       /\ x1 < args.x /\ args.x < x2
       /\ RLt(ret.loss, privacy_loss(self, x1, TRUE).val)
       /\ RLt(privacy_loss(self, x2, TRUE).val, ret.loss)

\* C11: for every mechanism and every loss L that privacy_loss achieves and
\* for which inverse_privacy_loss(L) is finite,
\* privacy_loss(inverse_privacy_loss(L)) is L.
C11_RoundTrip ==
  (IsInverse /\ args.ulp = 0 /\ ~ret.err /\ ~IsInfX(ret.x)
     /\ args.privacy_loss \in AchievedLosses(self)) =>
    privacy_loss(self, ret.x, TRUE) = Return(args.privacy_loss)

IsCalibration == method = "from_privacy_guarantee"

\* the result of the same call with the other adjacency type requested
OtherCalibration ==
  from_privacy_guarantee(args.cls, args.epsilon, args.delta, args.sensitivity,
                         self.pessimistic_estimate, args.sampling_prob,
                         IF args.adjacency_type = ADD THEN REMOVE ELSE ADD)

\* C12: for each of the four mechanisms, the instance from_privacy_guarantee
\* returns carries the requested adjacency_type, every instance constructed
\* to evaluate a candidate of the search is REMOVE-adjacent, and the call
\* with the other adjacency type requested returns the same noise parameter.
C12_CalibrationUsesRemoveOnly ==
  (IsCalibration /\ ~ret.err) =>
    /\ self.cls = args.cls
    /\ self.adjacency_type = args.adjacency_type
    /\ \A i \in 1..Len(probes) : probes[i].adjacency_type = REMOVE
    /\ ~OtherCalibration.err
    /\ OtherCalibration.instance.base = self.base
    /\ OtherCalibration.instance.sensitivity = self.sensitivity

C12_Witness ==
  /\ IsCalibration
  /\ ~ret.err
  /\ self.cls = GaussianPrivacyLoss
  /\ args.adjacency_type = ADD
  /\ SubSampled
  /\ Len(probes) = 2
  /\ self.sensitivity = 1
  /\ self.adjacency_type = ADD

\* the delta of the returned instance at the epsilon of the target
CalibratedDelta == get_delta_for_epsilon(self, <<args.epsilon>>).deltas[1]

\* C13 as stated: for each mechanism the instance from_privacy_guarantee
\* returns for the target (epsilon, delta) has get_delta_for_epsilon(epsilon)
\* equal to delta.
C13_CalibrationRoundTrip ==
  (IsCalibration /\ ~ret.err) => CalibratedDelta = args.delta

\* C13, amended: the instance from_privacy_guarantee returns for the target
\* (epsilon, delta) has get_delta_for_epsilon(epsilon) at most delta; it is 0
\* for the Laplace and the discrete Laplace mechanism, whatever delta is, and
\* it is delta for the Gaussian and the discrete Gaussian mechanism when the
\* REMOVE adjacency type is requested or sampling_prob is 1.
C13_CalibratedDeltaAtMostTarget ==
  (IsCalibration /\ ~ret.err) =>
    /\ RLe(CalibratedDelta, args.delta)
    /\ args.cls \in {LaplacePrivacyLoss, DiscreteLaplacePrivacyLoss} =>
         CalibratedDelta = Zero
    /\ (/\ args.cls \in {GaussianPrivacyLoss, DiscreteGaussianPrivacyLoss}
        /\ args.adjacency_type = REMOVE \/ args.sampling_prob = One) =>
         CalibratedDelta = args.delta

C13_Witness ==
  /\ IsCalibration
  /\ ~ret.err
  /\ args.cls = DiscreteGaussianPrivacyLoss
  /\ args.adjacency_type = REMOVE
  /\ SubSampled
  /\ self.base = 2
  /\ RLt(Zero, args.delta)
  /\ CalibratedDelta = args.delta

\* C15: from_privacy_guarantee of the Gaussian and of the discrete Gaussian
\* mechanism called with delta = 0 raises, before it constructs an instance
\* to evaluate a candidate of the search and without returning an instance.
C15_DeltaZeroRaisesBeforeSearch ==
  (/\ IsCalibration
   /\ args.cls \in {GaussianPrivacyLoss, DiscreteGaussianPrivacyLoss}
   /\ args.delta = Zero) =>
    /\ ret.err
    /\ probes = <<>>
    /\ self = NoInstance

C15_Witness ==
  /\ IsCalibration
  /\ args.cls = GaussianPrivacyLoss
  /\ args.delta = Zero
  /\ ~BaseInitFails(args.sensitivity, args.sampling_prob)
  /\ ret.err
  /\ probes = <<>>

IsConstructor == method = "__init__" /\ args.cls \in Classes

\* C14: the constructor of each of the four mechanisms raises when
\* sensitivity <= 0, sampling_prob <= 0 or sampling_prob > 1, whatever the
\* other arguments are, and no instance is constructed.
C14_ConstructorValidates ==
  (/\ IsConstructor
   /\ \/ args.sensitivity <= 0
      \/ RLe(args.sampling_prob, Zero)
      \/ RLt(One, args.sampling_prob)) =>
    /\ ret.err
    /\ self = NoInstance

\* the arguments pass every check of the subclass constructor and fail the
\* validation of the base class only
C14_Witness ==
  /\ IsConstructor
  /\ args.cls = GaussianPrivacyLoss
  /\ args.parameter_positive
  /\ args.sensitivity = 1
  /\ args.sampling_prob = <<3, 2>>
  /\ ret.err
  /\ self = NoInstance

\* The scenario of C16 and C17: sensitivity 1, REMOVE adjacency,
\* sampling_prob 1, and the loss asked at x = 0.  A loss of v / b (Laplace) or
\* of v * a (discrete Laplace) is stored as base^v, so that with b = 1 or
\* a = 1 the loss is v.
ScenarioAtZero(cls, called) ==
  /\ method = called
  /\ self.cls = cls
  /\ self.sensitivity = 1
  /\ self.adjacency_type = REMOVE
  /\ self.sampling_prob = One
  /\ args.x = 0
  /\ args.x_is_int

\* C16 as stated: for the Laplace mechanism with b = 1, sensitivity 1, REMOVE
\* adjacency and sampling_prob 1, privacy_loss(0) is 1 and privacy_loss(10)
\* is -1.
C16_LaplaceScenario ==
  ScenarioAtZero(LaplacePrivacyLoss, "privacy_loss") =>
    /\ ret.loss = RPow(self.base, 1)
    /\ privacy_loss(self, 10, FALSE) = Return(RPow(self.base, -1))

\* C16, amended: for the Laplace mechanism with b = 1, sensitivity 1, REMOVE
\* adjacency and sampling_prob 1, privacy_loss(0) is -1 and privacy_loss(10)
\* is -1; the loss 1 is taken at x = -1.
C16_LaplaceScenarioRemove ==
  ScenarioAtZero(LaplacePrivacyLoss, "privacy_loss") =>
    /\ ~ret.err
    /\ ret.loss = RPow(self.base, -1)
    /\ privacy_loss(self, 10, FALSE) = Return(RPow(self.base, -1))
    /\ privacy_loss(self, -1, FALSE) = Return(RPow(self.base, 1))

C16_Witness ==
  /\ ScenarioAtZero(LaplacePrivacyLoss, "privacy_loss")
  /\ ret.loss = RPow(self.base, -1)

\* C17 as stated: for the discrete Laplace mechanism with a = 1,
\* sensitivity 1, REMOVE adjacency and sampling_prob 1,
\* privacy_loss_without_subsampling(0) is 1.
C17_DiscreteLaplaceScenario ==
  ScenarioAtZero(DiscreteLaplacePrivacyLoss,
                 "privacy_loss_without_subsampling") =>
    ret.loss = RPow(self.base, 1)

\* C17, amended: for the discrete Laplace mechanism with a = 1,
\* sensitivity 1, REMOVE adjacency and sampling_prob 1,
\* privacy_loss_without_subsampling(0) is -1; the loss 1 is taken at x = -1.
C17_DiscreteLaplaceScenarioRemove ==
  ScenarioAtZero(DiscreteLaplacePrivacyLoss,
                 "privacy_loss_without_subsampling") =>
    /\ ~ret.err
    /\ ret.loss = RPow(self.base, -1)
    /\ privacy_loss_without_subsampling(self, -1, TRUE)
         = Return(RPow(self.base, 1))

C17_Witness ==
  /\ ScenarioAtZero(DiscreteLaplacePrivacyLoss,
                    "privacy_loss_without_subsampling")
  /\ ret.loss = RPow(self.base, -1)

\* C18: for the discrete Laplace and the discrete Gaussian mechanism, every
\* adjacency type and every sampling probability, privacy_loss(x) and
\* privacy_loss_without_subsampling(x) at an x that is not an int raise;
\* sampling_prob < 1 does not turn the failure into a value.
C18_NonIntegerRaises ==
  (/\ method \in {"privacy_loss", "privacy_loss_without_subsampling"}
   /\ self.discrete_noise
   /\ ~args.x_is_int) =>
    ret.err

C18_Witness ==
  /\ method = "privacy_loss"
  /\ self.cls = DiscreteGaussianPrivacyLoss
  /\ SubSampled
  /\ ~args.x_is_int
  /\ ~privacy_loss(self, args.x, TRUE).err
  /\ ret.err

IsTail == method = "privacy_loss_tail"

\* the sum of the values of tail_probability_mass_function
TailMass ==
  LET pmf == ret.tail.tail_probability_mass_function
  IN  IF Len(pmf) = 0 THEN Zero
      ELSE IF Len(pmf) = 1 THEN pmf[1][2]
      ELSE RAdd(pmf[1][2], pmf[2][2])

RECURSIVE MassBetween(_, _, _)
\* the mass mu_upper puts on the integers lower..upper
MassBetween(inst, lower, upper) ==
  IF lower > upper THEN Zero
  ELSE RAdd(MuUpperPmf(inst, lower), MassBetween(inst, lower + 1, upper))

\* the mass mu_upper puts on [lower_x_truncation, upper_x_truncation]: a sum
\* of the probability mass function for discrete noise, the difference of
\* the cumulative distribution function for continuous noise
InsideMass ==
  IF self.discrete_noise
  THEN MassBetween(self, ret.tail.lower_x_truncation,
                   ret.tail.upper_x_truncation)
  ELSE RSub(mu_upper_cdf(self, ret.tail.upper_x_truncation),
            mu_upper_cdf(self, ret.tail.lower_x_truncation))

C20_ConnectDotsBoundsOnePair ==
  method = "connect_dots_bounds" =>
    /\ ~ret.err
    /\ ret.bounds.set = IF self.discrete_noise THEN {"lower_x", "upper_x"}
                        ELSE {"epsilon_upper", "epsilon_lower"}
    /\ self.discrete_noise <=>
         self.cls \in {DiscreteLaplacePrivacyLoss,
                       DiscreteGaussianPrivacyLoss}

C20_Witness ==
  /\ method = "connect_dots_bounds"
  /\ self.cls = LaplacePrivacyLoss
  /\ SubSampled
  /\ ret.bounds.set = {"epsilon_upper", "epsilon_lower"}
  /\ RLt(ret.bounds.epsilon_lower, ret.bounds.epsilon_upper)

IsDiscreteGaussian == self.cls = DiscreteGaussianPrivacyLoss

\* the point the ADD formula is evaluated at: x, or x + sensitivity for REMOVE
AddPoint(x) ==
  IF self.adjacency_type = ADD THEN x ELSE x + self.sensitivity

\* the loss the regions promise at the integer y of the ADD formula
RegionLoss(y) ==
  LET B == self.truncation_bound
      s == self.sensitivity
  IN  IF -B <= y /\ y < s - B THEN Return(PosInf)
      ELSE IF s - B <= y /\ y <= B
      THEN Return(RPow(self.base, s * (s - 2 * y)))
      ELSE IF B < y /\ y <= B + s THEN Return(Zero)
      ELSE RaiseLoss

C22_TruncationBoundValidated ==
  /\ (/\ IsConstructor
      /\ args.cls = DiscreteGaussianPrivacyLoss
      /\ 2 * args.truncation_bound < args.sensitivity) =>
       (ret.err /\ ~ret.arrays_built /\ self = NoInstance)
  /\ IsDiscreteGaussian =>
       /\ 2 * self.truncation_bound >= self.sensitivity
       /\ Len(self.cdf_array) = 2 * self.truncation_bound + 2

C22_Witness ==
  /\ IsConstructor
  /\ args.cls = DiscreteGaussianPrivacyLoss
  /\ args.parameter_positive
  /\ ~BaseInitFails(args.sensitivity, args.sampling_prob)
  /\ args.sensitivity = 2 * args.truncation_bound + 1
  /\ ret.err
  /\ ~ret.arrays_built

\* the privacy loss at the integer x is +infinity or undefined
InfiniteOrUndefined(x, infinity) ==
  LET loss == privacy_loss(self, x, TRUE)
  IN  loss.err \/ loss.val = infinity

\* C23: for the discrete Gaussian mechanism, privacy_loss_tail has exactly
\* one entry, keyed +infinity, whose mass is the mass of mu_upper strictly
\* below lower_x_truncation; the truncations are, under ADD, upper = B and
\* lower = s-B if q = 1 else -B, and under REMOVE, lower = -B and
\* upper = B-s if q = 1 else B; privacy_loss is +infinity or undefined at
\* every integer below lower_x_truncation and -infinity or undefined at every
\* integer above upper_x_truncation.
C23_DiscreteGaussianTail ==
  (IsTail /\ IsDiscreteGaussian) =>
    LET B == self.truncation_bound
        s == self.sensitivity
        lower == ret.tail.lower_x_truncation
        upper == ret.tail.upper_x_truncation
    IN  /\ ret.tail.tail_probability_mass_function =
             << <<PosInf, MassBetween(self, -(B + s + 1), lower - 1)>> >>
        /\ lower = IF self.adjacency_type = ADD /\ ~SubSampled THEN s - B
                   ELSE -B
        /\ upper = IF self.adjacency_type = REMOVE /\ ~SubSampled THEN B - s
                   ELSE B
        /\ \A x \in Window(self) :
             /\ x < lower => InfiniteOrUndefined(x, PosInf)
             /\ x > upper => InfiniteOrUndefined(x, Zero)

C23_Witness ==
  /\ IsTail
  /\ IsDiscreteGaussian
  /\ self.adjacency_type = REMOVE
  /\ SubSampled
  /\ RLt(Zero, ret.tail.tail_probability_mass_function[1][2])
  /\ ~privacy_loss(self, ret.tail.lower_x_truncation - 1, TRUE).err
  /\ privacy_loss(self, ret.tail.lower_x_truncation - 1, TRUE).val = PosInf

IsDiscreteLaplace == self.cls = DiscreteLaplacePrivacyLoss

\* C24: for the discrete Laplace mechanism, privacy_loss_tail has the
\* truncations (1, s-1) under ADD and (1-s, -1) under REMOVE, gives the mass
\* of mu_upper at x <= lower_x_truncation-1 to the key
\* privacy_loss(lower_x_truncation-1) and the mass at
\* x >= upper_x_truncation+1 to the key privacy_loss(upper_x_truncation+1);
\* privacy_loss is the first key at every integer below lower_x_truncation
\* and the second key at every integer above upper_x_truncation; and
\* connect_dots_bounds returns (lower_x_truncation-1, upper_x_truncation+1).
C24_DiscreteLaplaceTail ==
  /\ (IsTail /\ IsDiscreteLaplace) =>
       LET s == self.sensitivity
           lower == ret.tail.lower_x_truncation
           upper == ret.tail.upper_x_truncation
           pmf == ret.tail.tail_probability_mass_function
       IN  /\ <<lower, upper>> = IF self.adjacency_type = ADD
                                 THEN <<1, s - 1>> ELSE <<1 - s, -1>>
           /\ pmf = << <<LossAtPoint(self, lower - 1),
                         mu_upper_cdf(self, lower - 1)>>,
                       <<LossAtPoint(self, upper + 1),
                         RSub(One, mu_upper_cdf(self, upper))>> >>
           /\ \A x \in Window(self) :
                /\ x < lower => privacy_loss(self, x, TRUE) = Return(pmf[1][1])
                /\ x > upper => privacy_loss(self, x, TRUE) = Return(pmf[2][1])
  /\ (method = "connect_dots_bounds" /\ IsDiscreteLaplace) =>
       /\ ret.bounds.lower_x = privacy_loss_tail(self).lower_x_truncation - 1
       /\ ret.bounds.upper_x = privacy_loss_tail(self).upper_x_truncation + 1

C24_Witness ==
  /\ IsTail
  /\ IsDiscreteLaplace
  /\ SubSampled
  /\ self.adjacency_type = ADD
  /\ self.sensitivity = 2
  /\ Len(ret.tail.tail_probability_mass_function) = 2
  /\ privacy_loss(self, -3, TRUE)
       = Return(ret.tail.tail_probability_mass_function[1][1])

IsGaussian == self.cls = GaussianPrivacyLoss

\* the instance with the other value of pessimistic_estimate
OtherEstimate == [self EXCEPT !.pessimistic_estimate = ~@]

\* C25: for the Gaussian mechanism, privacy_loss_tail with
\* pessimistic_estimate = True has exactly two entries, +infinity with the
\* mass of mu_upper below lower_x_truncation and
\* privacy_loss(upper_x_truncation) with the mass above upper_x_truncation;
\* with pessimistic_estimate = False it has exactly one entry,
\* privacy_loss(lower_x_truncation) with the mass below lower_x_truncation;
\* the truncation points are the same for both.
C25_GaussianTailEstimates ==
  (IsTail /\ IsGaussian) =>
    LET lower == ret.tail.lower_x_truncation
        upper == ret.tail.upper_x_truncation
        pmf == ret.tail.tail_probability_mass_function
    IN  /\ pmf = IF self.pessimistic_estimate
                 THEN << <<PosInf, mu_upper_cdf(self, lower)>>,
                         <<LossAtPoint(self, upper),
                           RSub(One, mu_upper_cdf(self, upper))>> >>
                 ELSE << <<LossAtPoint(self, lower),
                           mu_upper_cdf(self, lower)>> >>
        /\ lower = privacy_loss_tail(OtherEstimate).lower_x_truncation
        /\ upper = privacy_loss_tail(OtherEstimate).upper_x_truncation

C25_Witness ==
  /\ IsTail
  /\ IsGaussian
  /\ ~self.pessimistic_estimate
  /\ SubSampled
  /\ Len(ret.tail.tail_probability_mass_function) = 1
  /\ Len(privacy_loss_tail(OtherEstimate).tail_probability_mass_function) = 2

\* the truncation point x of an ADD tail, moved to the REMOVE tail
ShiftToRemove(inst, x) ==
  IF inst.adjacency_type = ADD THEN x - inst.sensitivity ELSE x

\* C26: for a Gaussian mechanism with sampling_prob = 1, ADD and REMOVE give
\* the same connect_dots_bounds (epsilon_lower, epsilon_upper) and the same
\* tail_probability_mass_function, and the ADD truncation points are the
\* REMOVE truncation points shifted by +sensitivity.
C26_GaussianAdjacencySymmetry ==
  (IsTail /\ IsGaussian /\ ~SubSampled) =>
    LET other == privacy_loss_tail(OtherAdjacency(self))
    IN  /\ connect_dots_bounds(self) = connect_dots_bounds(OtherAdjacency(self))
        /\ ret.tail.tail_probability_mass_function
             = other.tail_probability_mass_function
        /\ ShiftToRemove(self, ret.tail.lower_x_truncation)
             = ShiftToRemove(OtherAdjacency(self), other.lower_x_truncation)
        /\ ShiftToRemove(self, ret.tail.upper_x_truncation)
             = ShiftToRemove(OtherAdjacency(self), other.upper_x_truncation)

C26_Witness ==
  /\ IsTail
  /\ IsGaussian
  /\ ~SubSampled
  /\ self.adjacency_type = ADD
  /\ self.sensitivity = 2
  /\ self.pessimistic_estimate
  /\ ret.tail.lower_x_truncation
       = privacy_loss_tail(OtherAdjacency(self)).lower_x_truncation + 2
  /\ connect_dots_bounds(self).epsilon_upper # PosInf

IsBounds == method = "connect_dots_bounds"

IsLaplace == self.cls = LaplacePrivacyLoss

\* C27: for the Laplace mechanism connect_dots_bounds returns epsilon_upper =
\* privacy_loss(lower_x_truncation) and epsilon_lower =
\* privacy_loss(upper_x_truncation) of privacy_loss_tail(), which are the
\* maximum and the minimum of privacy_loss over all x, for both adjacency
\* types and every sampling probability; with sampling_prob = 1 they are
\* sensitivity / parameter and its negation.
C27_LaplaceBoundsAreLossExtremes ==
  (IsBounds /\ IsLaplace) =>
    LET tail_pld == privacy_loss_tail(self)
        upper == ret.bounds.epsilon_upper
        lower == ret.bounds.epsilon_lower
    IN  /\ upper = LossAtPoint(self, tail_pld.lower_x_truncation)
        /\ lower = LossAtPoint(self, tail_pld.upper_x_truncation)
        /\ \A x \in Window(self) :
             /\ RLe(LossAtPoint(self, x), upper)
             /\ RLe(lower, LossAtPoint(self, x))
        /\ ~SubSampled =>
             /\ upper = RPow(self.base, self.sensitivity)
             /\ lower = RPow(self.base, -self.sensitivity)

C27_Witness ==
  /\ IsBounds
  /\ IsLaplace
  /\ SubSampled
  /\ self.adjacency_type = REMOVE
  /\ self.sensitivity = 2
  /\ RLt(ret.bounds.epsilon_upper, RPow(self.base, self.sensitivity))
  /\ \E x \in Window(self) :
       RLt(LossAtPoint(self, x), ret.bounds.epsilon_upper)

\* C28: for every mechanism, adjacency type, sampling probability in (0, 1]
\* and finite epsilon, get_delta_for_epsilon does not fail with the
\* out-of-domain error of inverse_privacy_loss: inverse_privacy_loss is
\* evaluated only for epsilon < -log(1 - q) under ADD and only for
\* epsilon > log(1 - q) under REMOVE, where it does not raise.
C28_GetDeltaNeverOutOfDomain ==
  IsGetDelta =>
    /\ \A i \in 1..Len(inverse_calls) :
         SubSampled =>
           IF self.adjacency_type = ADD
           THEN RLt(inverse_calls[i], RInv(RSub(One, self.sampling_prob)))
           ELSE RLt(RSub(One, self.sampling_prob), inverse_calls[i])
    /\ ~ret.err

\* C29: for every successfully constructed discrete Gaussian instance,
\* connect_dots_bounds returns lower_x <= upper_x, and privacy_loss(x) is
\* defined and finite at every integer x with lower_x <= x <= upper_x.
C29_DiscreteGaussianBoundsFinite ==
  (IsBounds /\ IsDiscreteGaussian) =>
    /\ ret.bounds.lower_x <= ret.bounds.upper_x
    /\ \A x \in ret.bounds.lower_x..ret.bounds.upper_x :
         /\ ~privacy_loss(self, x, TRUE).err
         /\ privacy_loss(self, x, TRUE).val \notin {Zero, PosInf}

\* a sub-sampled instance whose range holds a point where the loss without
\* sub-sampling is infinite
C29_Witness ==
  /\ IsBounds
  /\ IsDiscreteGaussian
  /\ SubSampled
  /\ \E x \in ret.bounds.lower_x..ret.bounds.upper_x :
       privacy_loss_without_subsampling(self, x, TRUE).val \in {Zero, PosInf}

\* an instance with 2 * truncation_bound = sensitivity: one point
C29_SinglePoint ==
  /\ IsBounds
  /\ IsDiscreteGaussian
  /\ ~SubSampled
  /\ ret.bounds.lower_x = ret.bounds.upper_x

\* C30: the two keys of the tail mapping built by privacy_loss_tail are
\* distinct for Laplace, discrete Laplace and pessimistic Gaussian instances,
\* for every adjacency type and sampling probability: the mapping has exactly
\* two entries, and no tail mass is lost by one entry overwriting the other.
C30_TailKeysDistinct ==
  (/\ IsTail
   /\ \/ IsLaplace
      \/ IsDiscreteLaplace
      \/ IsGaussian /\ self.pessimistic_estimate) =>
    LET pmf == ret.tail.tail_probability_mass_function
    IN  /\ Len(pmf) = 2
        /\ pmf[1][1] # pmf[2][1]

====
